---- MODULE Spec2Model ----
(***************************************************************************)
(* PIIGuardian: the detection pipeline of detector.py (pattern catalog,    *)
(* aggressive expressions, external NER adapter, fusion, anti-false-       *)
(* negative pass, validation, thresholds), the catalogs of patterns.py and *)
(* the validators of validators.py.                                        *)
(*                                                                         *)
(* Texts are strings; an offset i is the position before character i+1,    *)
(* as in Python.  Confidences are integers in thousandths (0.85 = 850).    *)
(* Regular expressions are syntax trees interpreted by M below with the    *)
(* backtracking order of Python's re module.                               *)
(***************************************************************************)
EXTENDS Integers, Sequences, FiniteSets, TLC

VARIABLES
  env,        \* the external NER model this process can load, or NoModel
  text,       \* the request text
  detectors,  \* the constructions made, in order: the arguments and the detector or error
  calls,      \* the calls of detect made, in order: detector, text, config and result
  vin,        \* the value handed to one component on its own: a string to a validator,
              \* a list of matches to the deduplication, two lists of entities to the fusion
  vkind,      \* the component it was handed to
  vout,       \* what that component returned
  shown       \* the texts made by mask_pii and anonymize_text from a call's text and entities

vars == <<env, text, detectors, calls, vin, vkind, vout, shown>>

----------------------------------------------------------------------------
(* Characters and character classes *)

CharsOf(s) == {SubSeq(s, i, i) : i \in 1..Len(s)}
\* [0-9]
AsciiDigits == "0123456789"
AsciiDigit == CharsOf(AsciiDigits)
\* \d of a str pattern, and what int() reads: the decimal digits, which among the
\* Latin-1 characters of the texts here are the same ten
Digit == AsciiDigit
LowerSeq == "abcdefghijklmnopqrstuvwxyzáàâãéèêíïóôõöúçñ"
UpperSeq == "ABCDEFGHIJKLMNOPQRSTUVWXYZÁÀÂÃÉÈÊÍÏÓÔÕÖÚÇÑ"
Lower == CharsOf(LowerSeq)
Upper == CharsOf(UpperSeq)
AsciiLower == CharsOf("abcdefghijklmnopqrstuvwxyz")
AsciiUpper == CharsOf("ABCDEFGHIJKLMNOPQRSTUVWXYZ")
AccentLower == CharsOf("áàâãéèêíïóôõöúçñ")
AccentUpper == CharsOf("ÁÀÂÃÉÈÊÍÏÓÔÕÖÚÇÑ")
\* \w of a str pattern: Unicode letters, digits and the underscore
WordChar == Digit \cup Lower \cup Upper \cup {"_", "º"}
\* \s, and what str.strip() removes
Space == {" ", "\t", "\n", "\r", "\f"}

\* the character of s after offset i
Ch(s, i) == SubSeq(s, i + 1, i + 1)
\* s[a:b]
Slice(s, a, b) == SubSeq(s, a + 1, b)

\* str.lower() / str.upper() of one character
LowerOf(c) == IF \E i \in 1..Len(UpperSeq) : SubSeq(UpperSeq, i, i) = c
              THEN LET i == CHOOSE j \in 1..Len(UpperSeq) : SubSeq(UpperSeq, j, j) = c
                   IN SubSeq(LowerSeq, i, i)
              ELSE c
UpperOf(c) == IF \E i \in 1..Len(LowerSeq) : SubSeq(LowerSeq, i, i) = c
              THEN LET i == CHOOSE j \in 1..Len(LowerSeq) : SubSeq(LowerSeq, j, j) = c
                   IN SubSeq(UpperSeq, i, i)
              ELSE c
\* a class under re.IGNORECASE
IgnoreCase(S) == S \cup {LowerOf(c) : c \in S} \cup {UpperOf(c) : c \in S}

\* ''.join(parts), by halves
RECURSIVE Join(_)
Join(parts) ==
  IF Len(parts) = 0 THEN ""
  ELSE IF Len(parts) = 1 THEN parts[1]
  ELSE Join(SubSeq(parts, 1, Len(parts) \div 2)) \o Join(SubSeq(parts, Len(parts) \div 2 + 1, Len(parts)))

\* str.lower()
StrLower(s) == Join(<<>> \o [i \in 1..Len(s) |-> LowerOf(SubSeq(s, i, i))])

\* str.strip(): offsets of the first and past the last non-space character
StripStart(s) == IF \E i \in 0..(Len(s) - 1) : Ch(s, i) \notin Space
                 THEN CHOOSE i \in 0..(Len(s) - 1) :
                        /\ Ch(s, i) \notin Space
                        /\ \A j \in 0..(i - 1) : Ch(s, j) \in Space
                 ELSE Len(s)
StripEnd(s) == IF \E i \in 1..Len(s) : Ch(s, i - 1) \notin Space
               THEN CHOOSE i \in 1..Len(s) :
                      /\ Ch(s, i - 1) \notin Space
                      /\ \A j \in (i + 1)..Len(s) : Ch(s, j - 1) \in Space
               ELSE 0
Strip(s) == IF StripEnd(s) = 0 THEN "" ELSE Slice(s, StripStart(s), StripEnd(s))

\* sum(c.isdigit() for c in value)
CountDigits(s) == Cardinality({i \in 1..Len(s) : SubSeq(s, i, i) \in Digit})

\* the digits of s in order, one character each
DigitChars(s) ==
  LET at == {i \in 1..Len(s) : SubSeq(s, i, i) \in Digit}
      Nth(k) == CHOOSE i \in at : Cardinality({j \in at : j < i}) = k - 1
  IN <<>> \o [k \in 1..Cardinality(at) |-> SubSeq(s, Nth(k), Nth(k))]

\* re.sub(r'\D', '', s)
OnlyDigits(s) == Join(DigitChars(s))

\* int() of one decimal digit
DigitVal(c) == CHOOSE n \in 0..9 : Ch(AsciiDigits, n) = c

----------------------------------------------------------------------------
(* Regular expressions: syntax trees and the backtracking matcher *)

Cls(S) == [k |-> "cls", S |-> S]
Cat(a) == [k |-> "cat", a |-> a]
Alt(a) == [k |-> "alt", a |-> a]
\* r{lo,hi}, greedy; hi = -1 is unbounded
Rep(r, lo, hi) == [k |-> "rep", r |-> r, lo |-> lo, hi |-> hi]
Opt(r) == Rep(r, 0, 1)
Star(r) == Rep(r, 0, -1)
Plus(r) == Rep(r, 1, -1)
WB == [k |-> "wb"]
Bol == [k |-> "bol"]
Eol == [k |-> "eol"]
D == Cls(Digit)
C(c) == Cls({c})
CI(c) == Cls(IgnoreCase({c}))
Sp == Cls(Space)
\* a literal, case-sensitive and under re.IGNORECASE
Lit(s) == Cat([i \in 1..Len(s) |-> C(SubSeq(s, i, i))])
LitI(s) == Cat([i \in 1..Len(s) |-> CI(SubSeq(s, i, i))])
Dn(n) == Rep(D, n, n)

IsWordAt(s, i) == i >= 0 /\ i < Len(s) /\ Ch(s, i) \in WordChar
\* \b
AtBoundary(s, i) == IsWordAt(s, i - 1) # IsWordAt(s, i)

\* a function over 1..n as the sequence of its values
AsSeq(f) == <<>> \o f

\* The offsets held by the sequences of ss, each once, ordered by the first place
\* where it occurs (every sequence of ss holds an offset at most once).
Flat(ss) ==
  LET t == AsSeq(ss)
      Has(n, v) == \E m \in 1..Len(t[n]) : t[n][m] = v
      V == UNION {{t[n][m] : m \in 1..Len(t[n])} : n \in 1..Len(t)}
      Row(v) == CHOOSE n \in 1..Len(t) : Has(n, v) /\ \A k \in 1..(n - 1) : ~Has(k, v)
      Col(v) == CHOOSE m \in 1..Len(t[Row(v)]) : t[Row(v)][m] = v
      Before(v, w) == Row(v) < Row(w) \/ (Row(v) = Row(w) /\ Col(v) < Col(w))
  IN IF Len(t) = 0 THEN <<>>
     ELSE IF Len(t) = 1 THEN t[1]
     ELSE AsSeq([k \in 1..Cardinality(V) |->
                   CHOOSE v \in V : Cardinality({w \in V : Before(w, v)}) = k - 1])

\* a greedy repetition of a character class: the longest run first
ClsRun(S, lo, hi, s, i) ==
  LET cap == IF hi = -1 \/ Len(s) - i < hi THEN Len(s) - i ELSE hi
      lens == {n \in 0..cap : \A k \in 0..(n - 1) : Ch(s, i + k) \in S}
      run == CHOOSE n \in lens : \A m \in lens : m <= n
  IN IF run < lo THEN <<>> ELSE AsSeq([n \in 1..(run - lo + 1) |-> i + run - n + 1])

RECURSIVE M(_, _, _), MCat(_, _, _, _), MRep(_, _, _, _, _)
\* The end offsets of the matches of re in s that start at offset i, each once,
\* in the order in which the backtracking matcher tries them.
M(re, s, i) ==
  CASE re.k = "cls" -> IF i < Len(s) /\ Ch(s, i) \in re.S THEN <<i + 1>> ELSE <<>>
    [] re.k = "wb"  -> IF AtBoundary(s, i) THEN <<i>> ELSE <<>>
    [] re.k = "bol" -> IF i = 0 THEN <<i>> ELSE <<>>
    [] re.k = "eol" -> IF i = Len(s) \/ (i = Len(s) - 1 /\ Ch(s, i) = "\n") THEN <<i>> ELSE <<>>
    [] re.k = "cat" -> MCat(re.a, 1, s, <<i>>)
    [] re.k = "alt" -> Flat([j \in 1..Len(re.a) |-> M(re.a[j], s, i)])
    [] re.k = "rep" -> IF re.r.k = "cls" THEN ClsRun(re.r.S, re.lo, re.hi, s, i)
                       ELSE MRep(re.r, re.lo, re.hi, s, i)

\* the elements of a from the j-th on, matched from each of the offsets in ends
MCat(a, j, s, ends) ==
  IF ends = <<>> THEN <<>>
  ELSE IF j > Len(a) THEN ends
  ELSE MCat(a, j + 1, s, Flat([n \in 1..Len(ends) |-> M(a[j], s, ends[n])]))

\* a greedy repetition: one more iteration is tried before stopping
MRep(r, lo, hi, s, i) ==
  IF hi = 0 THEN <<i>>
  ELSE LET More(step) ==
             AsSeq([n \in 1..Len(step) |->
               MRep(r, IF lo > 0 THEN lo - 1 ELSE 0, IF hi = -1 THEN -1 ELSE hi - 1,
                    s, step[n])])
           Stop(more) == IF lo > 0 THEN more ELSE more \o <<<<i>>>>
       IN Flat(Stop(More(SelectSeq(M(r, s, i), LAMBDA e : e > i))))

\* re.finditer(re, s): the leftmost offset at or after pos where re matches, the
\* first match there in backtracking order, the scan resuming where the match ended
RECURSIVE FindIter(_, _, _)
FindIter(re, s, pos) ==
  LET Span(p, e) == <<[start |-> p, end |-> e]>> \o FindIter(re, s, IF e = p THEN p + 1 ELSE e)
      At(p) == Span(p, M(re, s, p)[1])
      From(starts) == IF starts = {} THEN <<>>
                      ELSE At(CHOOSE q \in starts : \A r \in starts : q <= r)
  IN From({p \in pos..Len(s) : M(re, s, p) # <<>>})

\* The first match of pre(grp)post at offset i in backtracking order, with the span
\* of the group; <<>> when there is none.
GroupMatch(pre, grp, post, s, i) ==
  LET Span(gstart, gend) ==
        <<[start |-> i, gstart |-> gstart, gend |-> gend, end |-> M(post, s, gend)[1]]>>
      First(gss, ges, found) ==
        IF found = {} THEN <<>>
        ELSE LET a == CHOOSE x \in found : \A y \in found : x <= y
             IN Span(gss[a], ges[a][1])
      Groups(gss, ges) == First(gss, ges, {a \in 1..Len(gss) : ges[a] # <<>>})
      Starts(gss) ==
        Groups(gss, AsSeq([a \in 1..Len(gss) |->
                      SelectSeq(M(grp, s, gss[a]), LAMBDA e : M(post, s, e) # <<>>)]))
  IN Starts(M(pre, s, i))

\* re.finditer for a pattern pre(grp)post, keeping the group's span
RECURSIVE FindIterGroup(_, _, _, _, _)
FindIterGroup(pre, grp, post, s, pos) ==
  LET Span(p, m) ==
        m \o FindIterGroup(pre, grp, post, s, IF m[1].end = p THEN p + 1 ELSE m[1].end)
      At(p) == Span(p, GroupMatch(pre, grp, post, s, p))
      From(starts) == IF starts = {} THEN <<>>
                      ELSE At(CHOOSE q \in starts : \A r \in starts : q <= r)
  IN From({p \in pos..Len(s) : GroupMatch(pre, grp, post, s, p) # <<>>})

----------------------------------------------------------------------------
(* patterns.py: the pattern catalog *)

AsciiLetter == AsciiLower \cup AsciiUpper
SepDotDashSlash == Cls({"-", ".", "/"})
SepDotDashSpace == Cls({"-", "."} \cup Space)
SepDotDash == Cls({"-", "."})
OptDot == Opt(C("."))
OptSp == Opt(Sp)
EmailLocal == Cls(AsciiLetter \cup AsciiDigit \cup {".", "_", "%", "+", "-"})
EmailDomain == Cls(AsciiLetter \cup AsciiDigit \cup {".", "-"})
Letter2Plus == Rep(Cls(AsciiLetter), 2, -1)
\* [A-Z] under re.IGNORECASE
AZ == Cls(IgnoreCase(AsciiUpper))
\* (?:\+?55\s?)?
OptDDI == Opt(Cat(<<Opt(C("+")), Lit("55"), OptSp>>))
\* \(?\d{2}\)?\s*
DDD == Cat(<<Opt(C("(")), Dn(2), Opt(C(")")), Star(Sp)>>)
Day == Alt(<<Cat(<<C("0"), Cls({"1","2","3","4","5","6","7","8","9"})>>),
             Cat(<<Cls({"1", "2"}), D>>),
             Cat(<<C("3"), Cls({"0", "1"})>>)>>)
Month == Alt(<<Cat(<<C("0"), Cls({"1","2","3","4","5","6","7","8","9"})>>),
               Cat(<<C("1"), Cls({"0", "1", "2"})>>)>>)
Year == Cat(<<Alt(<<Lit("19"), Lit("20")>>), Dn(2)>>)

PatternConfig(re, type, conf, prio, val, desc) ==
  [pattern |-> re, pii_type |-> type, min_confidence |-> conf, priority |-> prio,
   requires_validation |-> val, description |-> desc]

CPF_PATTERNS == <<
  PatternConfig(Cat(<<WB, Dn(3), OptDot, Dn(3), OptDot, Dn(3), Opt(SepDotDashSlash), Dn(2), WB>>),
                "CPF", 900, 1, TRUE, "CPF padrão com ou sem formatação"),
  PatternConfig(Cat(<<WB, Dn(3), OptSp, Dn(3), OptSp, Dn(3), OptSp, Dn(2), WB>>),
                "CPF", 850, 1, TRUE, "CPF com espaços"),
  PatternConfig(Cat(<<WB, Dn(9), Opt(SepDotDashSlash), Dn(2), WB>>),
                "CPF", 800, 2, TRUE, "CPF sem separadores intermediários")>>

CNPJ_PATTERNS == <<
  PatternConfig(Cat(<<WB, Dn(2), OptDot, Dn(3), OptDot, Dn(3), Opt(C("/")), Lit("0001"),
                      Opt(SepDotDash), Dn(2), WB>>),
                "CNPJ", 950, 1, TRUE, "CNPJ matriz"),
  PatternConfig(Cat(<<WB, Dn(2), OptDot, Dn(3), OptDot, Dn(3), Opt(C("/")), Dn(4),
                      Opt(SepDotDash), Dn(2), WB>>),
                "CNPJ", 900, 1, TRUE, "CNPJ padrão"),
  PatternConfig(Cat(<<WB, Dn(14), WB>>),
                "CNPJ", 700, 2, TRUE, "CNPJ sem formatação")>>

PHONE_PATTERNS == <<
  PatternConfig(Cat(<<DDD, Opt(C("9")), Dn(4), Opt(SepDotDashSpace), Dn(4), WB>>),
                "TELEFONE", 850, 1, FALSE, "Telefone com DDD"),
  PatternConfig(Cat(<<WB, OptDDI, DDD, C("9"), Dn(4), Opt(SepDotDashSpace), Dn(4), WB>>),
                "CELULAR", 900, 1, FALSE, "Celular com DDI opcional"),
  PatternConfig(Cat(<<WB, OptDDI, DDD, Cls({"2", "3", "4", "5"}), Dn(3),
                      Opt(SepDotDashSpace), Dn(4), WB>>),
                "TELEFONE", 850, 1, FALSE, "Telefone fixo"),
  PatternConfig(Cat(<<WB, Opt(C("9")), Dn(4), Opt(SepDotDashSpace), Dn(4), WB>>),
                "TELEFONE", 600, 3, FALSE, "Telefone sem DDD"),
  PatternConfig(Cat(<<Lit("+55"), OptSp, Dn(2), OptSp, Rep(D, 4, 5),
                      Opt(SepDotDashSpace), Dn(4), WB>>),
                "TELEFONE", 950, 1, FALSE, "Telefone formato internacional")>>

EMAIL_PATTERNS == <<
  PatternConfig(Cat(<<WB, Plus(EmailLocal), C("@"), Plus(EmailDomain), C("."), Letter2Plus, WB>>),
                "EMAIL", 950, 1, FALSE, "Email padrão"),
  PatternConfig(Cat(<<WB, Plus(EmailLocal), Star(Sp), C("@"), Star(Sp), Plus(EmailDomain),
                      Star(Sp), C("."), Star(Sp), Letter2Plus, WB>>),
                "EMAIL", 800, 2, FALSE, "Email com espaços"),
  PatternConfig(Cat(<<WB, Plus(EmailLocal), Star(Sp), C("["), Star(Sp), C("@"), Star(Sp), C("]"),
                      Star(Sp), Plus(EmailDomain), Star(Sp), C("."), Star(Sp), Letter2Plus, WB>>),
                "EMAIL", 850, 2, FALSE, "Email ofuscado com [@]")>>

CEP_PATTERNS == <<
  PatternConfig(Cat(<<WB, Dn(5), Opt(SepDotDashSpace), Dn(3), WB>>),
                "CEP", 850, 1, FALSE, "CEP padrão"),
  PatternConfig(Cat(<<WB, Dn(2), C("."), Dn(3), Opt(SepDotDash), Dn(3), WB>>),
                "CEP", 750, 2, FALSE, "CEP com ponto no meio")>>

RG_PATTERNS == <<
  PatternConfig(Cat(<<WB, Rep(D, 1, 2), OptDot, Dn(3), OptDot, Dn(3), Opt(SepDotDash),
                      Cls(AsciiDigit \cup {"x", "X"}), WB>>),
                "RG", 700, 2, FALSE, "RG padrão"),
  PatternConfig(Cat(<<WB, Rep(AZ, 2, 2), Opt(SepDotDashSpace), Dn(2), OptDot, Dn(3), OptDot,
                      Dn(3), WB>>),
                "RG", 800, 1, FALSE, "RG com UF")>>

CNH_PATTERNS == <<
  PatternConfig(Cat(<<WB, Dn(11), WB>>), "CNH", 500, 3, FALSE, "CNH (11 dígitos)"),
  PatternConfig(Cat(<<WB, Dn(4), OptSp, Dn(4), OptSp, Dn(3), WB>>),
                "CNH", 600, 2, FALSE, "CNH formatada")>>

TITULO_ELEITOR_PATTERNS == <<
  PatternConfig(Cat(<<WB, Dn(4), OptSp, Dn(4), OptSp, Dn(4), WB>>),
                "TITULO_ELEITOR", 600, 2, FALSE, "Título de eleitor (12 dígitos)")>>

PIS_PASEP_PATTERNS == <<
  PatternConfig(Cat(<<WB, Dn(3), OptDot, Dn(5), OptDot, Dn(2), Opt(SepDotDash), Dn(1), WB>>),
                "PIS_PASEP", 700, 2, FALSE, "PIS/PASEP")>>

CARTAO_CREDITO_PATTERNS == <<
  PatternConfig(Cat(<<WB,
                      Alt(<<Cat(<<C("4"), Dn(3)>>),
                            Cat(<<C("5"), Cls({"1", "2", "3", "4", "5"}), Dn(2)>>),
                            Lit("6011"),
                            Cat(<<C("3"), Cls({"4", "7"}), Dn(2)>>)>>),
                      Opt(SepDotDashSpace), Dn(4), Opt(SepDotDashSpace), Dn(4),
                      Opt(SepDotDashSpace), Dn(4), WB>>),
                "CARTAO_CREDITO", 900, 1, FALSE, "Cartão de crédito (Visa, Master, Amex)")>>

DATA_NASCIMENTO_PATTERNS == <<
  PatternConfig(Cat(<<WB, Day, SepDotDashSlash, Month, SepDotDashSlash, Year, WB>>),
                "DATA_NASCIMENTO", 700, 2, FALSE, "Data DD/MM/AAAA"),
  PatternConfig(Cat(<<WB, Year, SepDotDashSlash, Month, SepDotDashSlash, Day, WB>>),
                "DATA_NASCIMENTO", 700, 2, FALSE, "Data AAAA-MM-DD")>>

PLACA_VEICULO_PATTERNS == <<
  PatternConfig(Cat(<<WB, Rep(AZ, 3, 3), Opt(SepDotDashSpace), Dn(4), WB>>),
                "PLACA_VEICULO", 850, 1, FALSE, "Placa antiga AAA-1234"),
  PatternConfig(Cat(<<WB, Rep(AZ, 3, 3), D, AZ, Dn(2), WB>>),
                "PLACA_VEICULO", 900, 1, FALSE, "Placa Mercosul AAA1A23")>>

PASSAPORTE_PATTERNS == <<
  PatternConfig(Cat(<<WB, Rep(AZ, 2, 2), Dn(6), WB>>),
                "PASSAPORTE", 700, 2, FALSE, "Passaporte brasileiro")>>

\* _compile_all_patterns: the lists in order, grouped by type in the order in which
\* each type first appears (the dict keeps insertion order), so the CELULAR rule
\* comes after the four TELEFONE rules
all_pattern_lists ==
  CPF_PATTERNS \o CNPJ_PATTERNS \o PHONE_PATTERNS \o EMAIL_PATTERNS \o CEP_PATTERNS \o RG_PATTERNS
  \o CNH_PATTERNS \o TITULO_ELEITOR_PATTERNS \o PIS_PASEP_PATTERNS \o CARTAO_CREDITO_PATTERNS
  \o DATA_NASCIMENTO_PATTERNS \o PLACA_VEICULO_PATTERNS \o PASSAPORTE_PATTERNS

\* sorted(seq, key): a stable sort, each element placed after the elements that
\* come before it by the key and after the earlier elements with an equal key
StableSortBy(seq, Less(_, _)) ==
  LET Rank(k) == Cardinality({j \in 1..Len(seq) :
                    Less(seq[j], seq[k]) \/ (~Less(seq[k], seq[j]) /\ j < k)})
  IN AsSeq([r \in 1..Len(seq) |-> seq[CHOOSE k \in 1..Len(seq) : Rank(k) = r - 1]])

\* the sequences of ss one after the other
Concat(ss) ==
  LET t == AsSeq(ss)
      P == UNION {{<<k, m>> : m \in 1..Len(t[k])} : k \in 1..Len(t)}
      Rank(p) == Cardinality({q \in P : q[1] < p[1] \/ (q[1] = p[1] /\ q[2] < p[2])})
  IN AsSeq([x \in 1..Cardinality(P) |-> LET p == CHOOSE q \in P : Rank(q) = x - 1
                                        IN t[p[1]][p[2]]])

\* _compile_all_patterns: a dict keyed by type, so the rules of a type follow the
\* first rule of that type
FirstOfType(configs, type) ==
  CHOOSE i \in 1..Len(configs) :
    /\ configs[i].pii_type = type
    /\ \A j \in 1..(i - 1) : configs[j].pii_type # type
compiled_patterns ==
  LET Grouped(configs) ==
        StableSortBy(configs, LAMBDA x, y : FirstOfType(configs, x.pii_type)
                                            < FirstOfType(configs, y.pii_type))
  IN Grouped(all_pattern_lists)

\* _has_overlap: two [start,end) spans intersect
\* an overlap test that sees two matches as duplicates only when they start together
has_overlap_same_start(a, b) == a.start = b.start
has_overlap(a, b) == ~(a.end <= b.start \/ b.end <= a.start)

\* the matches of one rule, as find_all records them
RuleMatches(config, s) ==
  LET Found(ms) ==
        AsSeq([i \in 1..Len(ms) |->
          [type |-> config.pii_type, value |-> Slice(s, ms[i].start, ms[i].end),
           start |-> ms[i].start, end |-> ms[i].end, confidence |-> config.min_confidence,
           description |-> config.description,
           requires_validation |-> config.requires_validation, priority |-> config.priority]])
  IN Found(FindIter(config.pattern, s, 0))

AllRuleMatches(configs, s) == Concat([i \in 1..Len(configs) |-> RuleMatches(configs[i], s)])

\* sorted(matches, key=lambda x: (x['start'], -x['confidence']))
SortKeyLess(a, b) == a.start < b.start \/ (a.start = b.start /\ a.confidence > b.confidence)

RECURSIVE KeepNonOverlapping(_, _)
KeepNonOverlapping(sorted, result) ==
  IF sorted = <<>> THEN result
  ELSE KeepNonOverlapping(Tail(sorted),
         IF \E j \in 1..Len(result) : has_overlap(Head(sorted), result[j])
         THEN result ELSE Append(result, Head(sorted)))

deduplicate_matches(matches) ==
  IF matches = <<>> THEN matches
  ELSE KeepNonOverlapping(StableSortBy(matches, SortKeyLess), <<>>)

find_all(s) == deduplicate_matches(AllRuleMatches(compiled_patterns, s))

----------------------------------------------------------------------------
(* patterns.py: the contextual catalog (every rule compiled with re.IGNORECASE) *)

Keywords(ws) == Alt([i \in 1..Len(ws) |-> LitI(ws[i])])
\* (?:cpf|c\.p\.f\.?)
CpfWord == Alt(<<LitI("cpf"), Cat(<<LitI("c.p.f"), OptDot>>)>>)
\* n[°º]
NumeroSign == Cat(<<CI("n"), Cls({"°", "º"})>>)
SpColon == Cls(Space \cup {":"})
SpColonE == Cls(Space \cup {":"} \cup IgnoreCase({"é"}))
CpfDigits == Rep(Cls(AsciiDigit \cup {".", "-"} \cup Space), 11, 18)
PhoneDigits == Rep(Cls(AsciiDigit \cup {"(", ")", "-"} \cup Space), 8, 20)
EmailAddr == Cat(<<Plus(EmailLocal), C("@"), Plus(EmailDomain), C("."), Letter2Plus>>)
AnyLetter == Cls(Lower \cup Upper)
\* [A-Z][a-záàâãéèêíïóôõöúçñ]+(?:\s+[A-Z][a-záàâãéèêíïóôõöúçñ]+)+ under re.IGNORECASE
NameWordI == Cat(<<Cls(AsciiLetter), Plus(AnyLetter)>>)
FullNameI == Cat(<<NameWordI, Plus(Cat(<<Plus(Sp), NameWordI>>))>>)
Empty == Cat(<<>>)

ContextualRule(pre, grp, post, conf) == [pre |-> pre, grp |-> grp, post |-> post, confidence |-> conf]

CPF_CONTEXTUAL == <<
  ContextualRule(Cat(<<Opt(Keywords(<<"meu", "seu", "nosso", "dele", "dela">>)), Star(Sp), CpfWord,
                       Plus(SpColonE)>>), CpfDigits, Empty, 920),
  ContextualRule(Cat(<<CpfWord, Plus(SpColon), CI("n"), Opt(Cls({"°", "º"})), Star(Sp)>>),
                 CpfDigits, Empty, 900),
  ContextualRule(Cat(<<Keywords(<<"cadastro", "documento">>), Plus(SpColon)>>),
                 Cat(<<Rep(Cls(AsciiDigit), 3, 3), OptDot, Rep(Cls(AsciiDigit), 3, 3), OptDot,
                       Rep(Cls(AsciiDigit), 3, 3), Opt(SepDotDash), Rep(Cls(AsciiDigit), 2, 2)>>),
                 Empty, 880),
  ContextualRule(Cat(<<Keywords(<<"inscrito", "registrado">>), Plus(Sp), Keywords(<<"no", "sob">>),
                       Plus(Sp), CpfWord, Plus(SpColon)>>), CpfDigits, Empty, 930)>>

PHONE_CONTEXTUAL == <<
  ContextualRule(Cat(<<Opt(Keywords(<<"meu", "seu", "nosso">>)), Star(Sp),
                       Keywords(<<"telefone", "tel", "fone", "celular", "cel", "contato",
                                  "whatsapp", "zap">>), Plus(SpColonE)>>), PhoneDigits, Empty, 900),
  ContextualRule(Cat(<<Keywords(<<"ligue", "ligar", "chamar">>), Plus(SpColon),
                       Opt(Keywords(<<"para", "no", "em">>)), Star(Sp)>>), PhoneDigits, Empty, 850),
  ContextualRule(Cat(<<Alt(<<LitI("número"), NumeroSign>>), Plus(SpColon)>>), PhoneDigits, Empty, 750)>>

EMAIL_CONTEXTUAL == <<
  ContextualRule(Cat(<<Opt(Keywords(<<"meu", "seu", "nosso">>)), Star(Sp),
                       Alt(<<Cat(<<CI("e"), Opt(C("-")), LitI("mail")>>), LitI("email"),
                             LitI("correio")>>), Plus(SpColonE)>>), EmailAddr, Empty, 950),
  ContextualRule(Cat(<<Alt(<<Cat(<<LitI("envi"), Opt(CI("e"))>>), Cat(<<LitI("mand"), Opt(CI("e"))>>),
                             LitI("contato")>>), Plus(SpColon),
                       Opt(Keywords(<<"para", "em">>)), Star(Sp)>>), EmailAddr, Empty, 900)>>

ADDRESS_CONTEXTUAL == <<
  ContextualRule(Cat(<<Alt(<<LitI("rua"), Cat(<<LitI("av"), OptDot>>), LitI("avenida"),
                             LitI("travessa"), LitI("alameda"), LitI("praça")>>), Plus(SpColon)>>),
                 Plus(Cls(Lower \cup Upper \cup Space)),
                 Cat(<<Opt(C(",")), Star(Sp),
                       Opt(Alt(<<Cat(<<CI("n"), Opt(Cls({"°", "º"}))>>), LitI("número")>>)),
                       Star(Sp), Plus(D)>>), 850),
  ContextualRule(Cat(<<Keywords(<<"endereço", "mora em", "residente", "localizado">>), Plus(SpColon)>>),
                 Plus(Cls(Lower \cup Upper \cup Space \cup {","} \cup Digit)), Empty, 800)>>

NAME_CONTEXTUAL == <<
  ContextualRule(Cat(<<Alt(<<LitI("eu"), Cat(<<LitI("me"), Plus(Sp), LitI("chamo")>>),
                             Cat(<<LitI("meu"), Plus(Sp), LitI("nome"), Plus(Sp),
                                   Cls(IgnoreCase({"e", "é"}))>>)>>), Plus(SpColon)>>),
                 FullNameI, Empty, 850),
  ContextualRule(Cat(<<Keywords(<<"assinado", "assinatura", "responsável", "solicitante",
                                  "requerente">>), Plus(SpColon)>>), FullNameI, Empty, 800),
  ContextualRule(Cat(<<Alt(<<Cat(<<LitI("sr"), OptDot>>), Cat(<<LitI("sra"), OptDot>>),
                             LitI("senhor"), LitI("senhora"), Cat(<<LitI("dr"), OptDot>>),
                             Cat(<<LitI("dra"), OptDot>>)>>), Plus(SpColon)>>),
                 FullNameI, Empty, 750)>>

\* _compile_patterns: the groups in order, each with the type prefix of its key
pattern_groups == <<
  [name |-> "CPF", patterns |-> CPF_CONTEXTUAL],
  [name |-> "TELEFONE", patterns |-> PHONE_CONTEXTUAL],
  [name |-> "EMAIL", patterns |-> EMAIL_CONTEXTUAL],
  [name |-> "ENDERECO", patterns |-> ADDRESS_CONTEXTUAL],
  [name |-> "NOME", patterns |-> NAME_CONTEXTUAL]>>

\* the matches of one contextual rule: the captured group, stripped, with the span
\* of the group as it was captured
ContextualRuleMatches(name, rule, s) ==
  LET Found(ms) ==
        AsSeq([i \in 1..Len(ms) |->
          [type |-> name \o "_CONTEXTUAL", value |-> Strip(Slice(s, ms[i].gstart, ms[i].gend)),
           start |-> ms[i].gstart, end |-> ms[i].gend, confidence |-> rule.confidence,
           full_context |-> Slice(s, ms[i].start, ms[i].end), detection_method |-> "contextual"]])
  IN Found(FindIterGroup(rule.pre, rule.grp, rule.post, s, 0))

ContextualGroupMatches(name, rules, s) ==
  Concat([i \in 1..Len(rules) |-> ContextualRuleMatches(name, rules[i], s)])

ContextualAllMatches(groups, s) ==
  Concat([i \in 1..Len(groups) |-> ContextualGroupMatches(groups[i].name, groups[i].patterns, s)])

find_contextual(s) == ContextualAllMatches(pattern_groups, s)

----------------------------------------------------------------------------
(* detector.py: the expressions written into the regex and anti-false-negative stages *)

\* \b(?:\d{3}[\.\-\s]?){2}\d{3}[\.\-\s]?\d{2}?\b
cpf_aggressive ==
  Cat(<<WB, Rep(Cat(<<Dn(3), Opt(SepDotDashSpace)>>), 2, 2), Dn(3), Opt(SepDotDashSpace), Dn(2), WB>>)

\* \b(?:\d{4,5}[-\s]?\d{4}|\d{2}[\)]\s?\d{4,5}[-\s]?\d{4})\b
DashOrSpace == Opt(Cls({"-"} \cup Space))
phone_aggressive ==
  Cat(<<WB, Alt(<<Cat(<<Rep(D, 4, 5), DashOrSpace, Dn(4)>>),
                  Cat(<<Dn(2), C(")"), OptSp, Rep(D, 4, 5), DashOrSpace, Dn(4)>>)>>), WB>>)

\* \b(número|telefone|celular|fone|contato)[\s:]+(\d{4,5}[-\s]?\d{4})\b   re.IGNORECASE
number_pattern ==
  [pre |-> Cat(<<WB, Keywords(<<"número", "telefone", "celular", "fone", "contato">>), Plus(SpColon)>>),
   grp |-> Cat(<<Rep(D, 4, 5), DashOrSpace, Dn(4)>>), post |-> WB]

\* \b(CPF|c\.p\.f\.?|cadastro)[\s:]+([0-9\.\-\s]{8,18})\b   re.IGNORECASE
cpf_context ==
  [pre |-> Cat(<<WB, Alt(<<LitI("cpf"), Cat(<<LitI("c.p.f"), OptDot>>), LitI("cadastro")>>),
                 Plus(SpColon)>>),
   grp |-> Rep(Cls(AsciiDigit \cup {".", "-"} \cup Space), 8, 18), post |-> WB]

\* \b(sr\.?|sra\.?|senhor[a]?|doutor[a]?|dr\.?|dra\.?)\s+([A-Z][a-z...]+(?:\s+[A-Z][a-z...]+){1,4})\b
NameWord == Cat(<<Cls(AsciiUpper), Plus(Cls(Lower))>>)
name_keywords ==
  [pre |-> Cat(<<WB, Alt(<<Cat(<<Lit("sr"), OptDot>>), Cat(<<Lit("sra"), OptDot>>),
                           Cat(<<Lit("senhor"), Opt(C("a"))>>), Cat(<<Lit("doutor"), Opt(C("a"))>>),
                           Cat(<<Lit("dr"), OptDot>>), Cat(<<Lit("dra"), OptDot>>)>>), Plus(Sp)>>),
   grp |-> Cat(<<NameWord, Rep(Cat(<<Plus(Sp), NameWord>>), 1, 4)>>), post |-> WB]

GroupIter(p, s) == FindIterGroup(p.pre, p.grp, p.post, s, 0)

----------------------------------------------------------------------------
(* detector.py: the external named-entity model, as the adapter sees it *)

\* the process has no usable NER model (transformers missing or the load failed),
\* or it has one
NoModel == "none"
NerModel == "ner"
NerModels == {NoModel, NerModel}
\* the model as one call meets it when the tokenizer or the inference raises
FailingModel == "raises"

Contains(s, sub) == \E i \in 0..(Len(s) - Len(sub)) : Slice(s, i, i + Len(sub)) = sub
StartsWith(s, prefix) == Len(prefix) <= Len(s) /\ SubSeq(s, 1, Len(prefix)) = prefix

\* The tokenizer's offset mapping: [CLS] and [SEP] carry the offsets (0, 0); between
\* them come the words and the punctuation marks of the text with their offsets.
TokenStarts(s) ==
  {i \in 0..(Len(s) - 1) :
     /\ Ch(s, i) \notin Space
     /\ (Ch(s, i) \notin WordChar \/ i = 0 \/ Ch(s, i - 1) \notin WordChar)}
TokenEnd(s, i) ==
  IF Ch(s, i) \notin WordChar THEN i + 1
  ELSE CHOOSE j \in (i + 1)..Len(s) :
         /\ \A k \in i..(j - 1) : Ch(s, k) \in WordChar
         /\ (j = Len(s) \/ Ch(s, j) \notin WordChar)
offset_mapping(s) ==
  LET starts == TokenStarts(s)
      Nth(k) == CHOOSE i \in starts : Cardinality({j \in starts : j < i}) = k - 1
  IN <<<<0, 0>>>> \o AsSeq([k \in 1..Cardinality(starts) |-> <<Nth(k), TokenEnd(s, Nth(k))>>])
     \o <<<<0, 0>>>>

\* The label family the model gives a token: a capitalised word is a person, a word
\* in capitals an organisation, a number something else, the rest nothing.
IsCapitalised(w) ==
  Len(w) >= 2 /\ SubSeq(w, 1, 1) \in Upper /\ \A i \in 2..Len(w) : SubSeq(w, i, i) \in Lower
IsCapitals(w) == Len(w) >= 2 /\ \A i \in 1..Len(w) : SubSeq(w, i, i) \in Upper
IsNumber(w) == Len(w) >= 1 /\ \A i \in 1..Len(w) : SubSeq(w, i, i) \in Digit
PLACES == {"Brasília", "Goiânia", "Taguatinga"}
Family(s, offset) ==
  LET w == Slice(s, offset[1], offset[2])
  IN IF offset[1] = offset[2] THEN "O"
     ELSE IF w \in PLACES THEN "LOC"
     ELSE IF IsCapitalised(w) THEN "PER"
     ELSE IF IsCapitals(w) THEN "ORG"
     ELSE IF IsNumber(w) THEN "MISC"
     ELSE "O"
\* id2label of the predictions: B- opens a run of a family, I- continues it
labels(s) ==
  LET offs == offset_mapping(s)
  IN AsSeq([i \in 1..Len(offs) |->
       LET f == Family(s, offs[i])
       IN IF f = "O" THEN "O"
          ELSE IF i > 1 /\ Family(s, offs[i - 1]) = f THEN "I-" \o f ELSE "B-" \o f])

----------------------------------------------------------------------------
(* The texts handed to detect, and the pattern searches over them. A search depends
   on the text alone, so the searches over the texts below are computed once. *)

Texts == <<
  "", "   ", "\t\n",
  "(61) 99999-8888", "Número: 99999-8888", "Telefone: 99999-8888", "Contato: (61) 3456-7890",
  "tel 6134567890", "Número: 9999-888 tel 6134567890",
  "CPF: 111.111.111-11", "CPF: 529.982.247-25", "Meu CPF é 123.456.789-09", "123.456.789.09",
  "CPF: 529.982.247-2 529.982.247-25",
  "cadastro: 12345678909", "CPF: 123.456.789-09, Email: a@b.com",
  "11.222.333/0001-81", "11.111.111/1111-11",
  "Email: maria@exemplo.com", "a@b.xyz", "CEP 70000-000", "01/02/1990",
  "Sr. Carlos Silva", "dr Joao Silva", "Maria Silva", "Maria Silva mora em Brasília",
  "Bom dia, tudo bem?">>

Search(s) ==
  [catalog |-> find_all(s),
   cpf_aggressive |-> FindIter(cpf_aggressive, s, 0),
   phone_aggressive |-> FindIter(phone_aggressive, s, 0),
   contextual |-> find_contextual(s),
   number_pattern |-> GroupIter(number_pattern, s),
   cpf_context |-> GroupIter(cpf_context, s),
   name_keywords |-> GroupIter(name_keywords, s),
   offset_mapping |-> offset_mapping(s),
   labels |-> labels(s)]
\* what mask_pii and anonymize_text make of TransformTexts below, handed to detect in turn
ShownTexts == <<
  "(6***********88", "[TELEFONE_REMOVIDO]VIDO]",
  "Maria Silva mora em Br****ia", "Maria Silva mora em [ENDERECO_REMOVIDO]",
  "Ma******vamora em Brasília", "[NOME_REMOVIDO]mora em Brasília",
  "CPF: 52**********25", "CPF: [CPF_REMOVIDO]",
  "***: 52**********25", "[ORGANIZACAO_REMOVIDO]: [CPF_REMOVIDO]">>
AllTexts == Texts \o ShownTexts

SearchTable == AsSeq([i \in 1..Len(AllTexts) |-> Search(AllTexts[i])])
Searches(s) == SearchTable[CHOOSE i \in 1..Len(AllTexts) : AllTexts[i] = s]

----------------------------------------------------------------------------
(* detector.py: entities and the regex stage *)

Entity(type, value, start, end, confidence, method, explanation) ==
  [type |-> type, value |-> value, start |-> start, end |-> end, confidence |-> confidence,
   validation_status |-> "not_validated", validation_message |-> "",
   detection_method |-> method, explanation |-> explanation]

HasValue(entities, value) == \E i \in 1..Len(entities) : entities[i].value = value

\* one aggressive loop: a match is appended unless an entity already has its exact value
RECURSIVE AggressiveLoop(_, _, _, _, _, _, _, _)
AggressiveLoop(entities, ms, s, type, conf, lo, hi, expl) ==
  IF ms = <<>> THEN entities
  ELSE LET value == Slice(s, Head(ms).start, Head(ms).end)
           digits == CountDigits(value)
           next == IF ~HasValue(entities, value) /\ lo <= digits /\ digits <= hi
                   THEN Append(entities, Entity(type, value, Head(ms).start, Head(ms).end, conf,
                                                "regex_aggressive", expl))
                   ELSE entities
       IN AggressiveLoop(next, Tail(ms), s, type, conf, lo, hi, expl)

CatalogEntities(matches) ==
  AsSeq([i \in 1..Len(matches) |->
    Entity(matches[i].type, matches[i].value, matches[i].start, matches[i].end,
           matches[i].confidence, "regex", matches[i].description)])

\* found holds the searches over s that the stage makes
regex_detection_aggressive(s, found) ==
  AggressiveLoop(AggressiveLoop(CatalogEntities(found.catalog), found.cpf_aggressive, s, "CPF",
                                700, 9, 11, "Padrão agressivo de CPF detectado"),
                 found.phone_aggressive, s, "TELEFONE", 750,
                 8, 11, "Padrão agressivo de telefone detectado")

----------------------------------------------------------------------------
(* detector.py: the anti-false-negative stage *)

BRAZILIAN_NAMES == {
  "silva", "santos", "oliveira", "souza", "rodrigues", "ferreira",
  "alves", "pereira", "lima", "gomes", "costa", "ribeiro", "martins",
  "carvalho", "almeida", "lopes", "soares", "fernandes", "vieira",
  "barbosa", "rocha", "dias", "nascimento", "andrade", "moreira",
  "nunes", "marques", "machado", "mendes", "freitas", "cardoso",
  "ramos", "gonçalves", "santana", "teixeira", "moura", "araújo",
  "maria", "josé", "ana", "joão", "paulo", "carlos", "antonio",
  "francisco", "pedro", "lucas", "luiz", "marcos", "gabriel",
  "rafael", "daniel", "fernanda", "juliana", "camila", "amanda",
  "patricia", "aline", "bruna", "jessica", "leticia", "larissa"}

\* str.split(): the maximal runs of non-whitespace characters
Split(s) ==
  LET starts == {i \in 0..(Len(s) - 1) : Ch(s, i) \notin Space /\ (i = 0 \/ Ch(s, i - 1) \in Space)}
      EndOf(i) == CHOOSE j \in (i + 1)..Len(s) :
                    /\ \A k \in i..(j - 1) : Ch(s, k) \notin Space
                    /\ (j = Len(s) \/ Ch(s, j) \in Space)
  IN {Slice(s, i, EndOf(i)) : i \in starts}
WordCount(s) ==
  Cardinality({i \in 0..(Len(s) - 1) : Ch(s, i) \notin Space /\ (i = 0 \/ Ch(s, i - 1) \in Space)})

has_overlap_dict(match, entity) == ~(match.end <= entity.start \/ entity.end <= match.start)

\* first loop: the contextual catalog; a match is dropped when an entity has its value
\* or overlaps it
RECURSIVE ContextualLoop(_, _)
ContextualLoop(entities, ms) ==
  IF ms = <<>> THEN entities
  ELSE LET match == Head(ms)
           is_duplicate == \E i \in 1..Len(entities) :
                             entities[i].value = match.value \/ has_overlap_dict(match, entities[i])
           next == IF ~is_duplicate /\ Strip(match.value) # ""
                   THEN Append(entities,
                               Entity(match.type, match.value, match.start, match.end,
                                      match.confidence, "contextual",
                                      "Detectado por contexto: '"
                                        \o SubSeq(match.full_context, 1,
                                                  IF Len(match.full_context) < 50
                                                  THEN Len(match.full_context) ELSE 50)
                                        \o "...'"))
                   ELSE entities
       IN ContextualLoop(next, Tail(ms))

\* the three hardwired loops: a match is dropped only when an entity has its exact value
RECURSIVE NumberLoop(_, _, _), CpfContextLoop(_, _, _), NameLoop(_, _, _)
NumberLoop(entities, ms, s) ==
  IF ms = <<>> THEN entities
  ELSE LET value == Slice(s, Head(ms).gstart, Head(ms).gend)
           next == IF ~HasValue(entities, value)
                   THEN Append(entities, Entity("TELEFONE_CONTEXTUAL", value, Head(ms).gstart,
                                                Head(ms).gend, 880, "anti_fn",
                                                "Contexto explícito de telefone detectado"))
                   ELSE entities
       IN NumberLoop(next, Tail(ms), s)

CpfContextLoop(entities, ms, s) ==
  IF ms = <<>> THEN entities
  ELSE LET value == Strip(Slice(s, Head(ms).gstart, Head(ms).gend))
           next == IF CountDigits(value) >= 9 /\ ~HasValue(entities, value)
                   THEN Append(entities, Entity("CPF_CONTEXTUAL", value, Head(ms).gstart,
                                                Head(ms).gend, 850, "anti_fn",
                                                "Menção explícita de CPF no contexto"))
                   ELSE entities
       IN CpfContextLoop(next, Tail(ms), s)

NameLoop(entities, ms, s) ==
  IF ms = <<>> THEN entities
  ELSE LET value == Slice(s, Head(ms).gstart, Head(ms).gend)
           has_common_name == Split(StrLower(value)) \cap BRAZILIAN_NAMES # {}
           next == IF ~HasValue(entities, value) /\ (has_common_name \/ WordCount(value) >= 2)
                   THEN Append(entities, Entity("NOME_PESSOA", value, Head(ms).gstart,
                                                Head(ms).gend, 750, "anti_fn",
                                                "Nome detectado após palavra-chave de tratamento"))
                   ELSE entities
       IN NameLoop(next, Tail(ms), s)

\* found holds the searches over s that the stage makes
anti_false_negative_filter(entities, s, found) ==
  NameLoop(CpfContextLoop(NumberLoop(ContextualLoop(entities, found.contextual),
                                     found.number_pattern, s),
                          found.cpf_context, s),
           found.name_keywords, s)

----------------------------------------------------------------------------
(* validators.py *)

\* ValidationResult; cleaned_value is <<>> for None and <<v>> for the value v
ValidationResult(is_valid, confidence, message, cleaned_value) ==
  [is_valid |-> is_valid, confidence |-> confidence, message |-> message,
   cleaned_value |-> cleaned_value, raised |-> ""]
\* an exception leaving validate instead of a result
Raised(exception) ==
  [is_valid |-> FALSE, confidence |-> 0, message |-> "", cleaned_value |-> <<>>,
   raised |-> exception]

\* clean without the substitution: every character of the value is kept
clean_kept(value) == AsSeq([i \in 1..Len(value) |-> SubSeq(value, i, i)])
\* clean: re.sub(r'\D', '', value), kept as the sequence of its characters
clean(value) == DigitChars(value)
\* str.isdigit() on a sequence of characters
isdigit(chars) == chars # <<>> /\ \A i \in 1..Len(chars) : chars[i] \in Digit
\* the test that never finds the characters equal
AllSame_never(chars) == FALSE
\* len(set(chars)) == 1
AllSame(chars) == chars # <<>> /\ \A i \in 1..Len(chars) : chars[i] = chars[1]

\* sum(d * w for d, w in zip(digits, weights)) over the first n pairs
RECURSIVE WeightedSum(_, _, _)
WeightedSum(digits, weights, n) ==
  IF n = 0 THEN 0 ELSE DigitVal(digits[n]) * weights[n] + WeightedSum(digits, weights, n - 1)

\* the first weights one short: range(9, 0, -1)
CPF_WEIGHTS_FIRST_short == [i \in 1..9 |-> 10 - i]
\* range(10, 1, -1) and range(11, 1, -1)
CPF_WEIGHTS_FIRST == [i \in 1..9 |-> 11 - i]
CPF_WEIGHTS_SECOND == [i \in 1..10 |-> 12 - i]

\* "cleaned in INVALID_CPFS": one of the ten strings of eleven equal digits
INVALID_CPFS == {[i \in 1..11 |-> d] : d \in AsciiDigit}

CPFValidator_validate(cpf) ==
  LET cleaned == clean(cpf)
      expected_first == ((WeightedSum(cleaned, CPF_WEIGHTS_FIRST, 9) * 10) % 11) % 10
      expected_second == ((WeightedSum(cleaned, CPF_WEIGHTS_SECOND, 10) * 10) % 11) % 10
  IN IF Len(cleaned) # 11
     THEN ValidationResult(FALSE, 0, "CPF deve ter 11 dígitos, encontrado: "
                                       \o ToString(Len(cleaned)), <<>>)
     ELSE IF ~isdigit(cleaned)
     THEN ValidationResult(FALSE, 0, "CPF deve conter apenas dígitos", <<>>)
     ELSE IF cleaned \in INVALID_CPFS
     THEN ValidationResult(FALSE, 0, "CPF com sequência inválida (dígitos repetidos)", <<>>)
     ELSE IF expected_first # DigitVal(cleaned[10])
     THEN ValidationResult(FALSE, 300, "Primeiro dígito verificador inválido: esperado "
                             \o ToString(expected_first) \o ", encontrado " \o cleaned[10],
                           <<Join(cleaned)>>)
     ELSE IF expected_second # DigitVal(cleaned[11])
     THEN ValidationResult(FALSE, 300, "Segundo dígito verificador inválido: esperado "
                             \o ToString(expected_second) \o ", encontrado " \o cleaned[11],
                           <<Join(cleaned)>>)
     ELSE ValidationResult(TRUE, 980, "CPF válido - dígitos verificadores conferem",
                           <<Join(cleaned)>>)

WEIGHTS_FIRST == <<5, 4, 3, 2, 9, 8, 7, 6, 5, 4, 3, 2>>
WEIGHTS_SECOND == <<6, 5, 4, 3, 2, 9, 8, 7, 6, 5, 4, 3, 2>>
INVALID_CNPJS == {[i \in 1..14 |-> d] : d \in AsciiDigit}

\* the check digit with the remainder 1 left out of the zero case
CheckDigit_below1(sum) == IF sum % 11 < 1 THEN 0 ELSE 11 - (sum % 11)
\* 0 if remainder < 2 else 11 - remainder
CheckDigit(sum) == IF sum % 11 < 2 THEN 0 ELSE 11 - (sum % 11)

CNPJValidator_validate(cnpj) ==
  LET cleaned == clean(cnpj)
      expected_first == CheckDigit(WeightedSum(cleaned, WEIGHTS_FIRST, 12))
      expected_second == CheckDigit(WeightedSum(cleaned, WEIGHTS_SECOND, 13))
  IN IF Len(cleaned) # 14
     THEN ValidationResult(FALSE, 0, "CNPJ deve ter 14 dígitos, encontrado: "
                                       \o ToString(Len(cleaned)), <<>>)
     ELSE IF ~isdigit(cleaned)
     THEN ValidationResult(FALSE, 0, "CNPJ deve conter apenas dígitos", <<>>)
     ELSE IF cleaned \in INVALID_CNPJS
     THEN ValidationResult(FALSE, 0, "CNPJ com sequência inválida (dígitos repetidos)", <<>>)
     ELSE IF expected_first # DigitVal(cleaned[13])
     THEN ValidationResult(FALSE, 300, "Primeiro dígito verificador inválido", <<Join(cleaned)>>)
     ELSE IF expected_second # DigitVal(cleaned[14])
     THEN ValidationResult(FALSE, 300, "Segundo dígito verificador inválido", <<Join(cleaned)>>)
     ELSE ValidationResult(TRUE, 980, "CNPJ válido - dígitos verificadores conferem",
                           <<Join(cleaned)>>)

VALID_DDDS ==
  {11, 12, 13, 14, 15, 16, 17, 18, 19, 21, 22, 24, 27, 28, 31, 32, 33, 34, 35, 37, 38,
   41, 42, 43, 44, 45, 46, 47, 48, 49, 51, 53, 54, 55, 61, 62, 63, 64, 65, 66, 67, 68, 69,
   71, 73, 74, 75, 77, 79, 81, 82, 83, 84, 85, 86, 87, 88, 89, 91, 92, 93, 94, 95, 96, 97, 98, 99}

\* the phone validator, from the characters its clean step hands on; int() raises
\* ValueError on anything but digits
PhoneValidator_check(chars) ==
  LET cleaned == IF Len(chars) > 11 /\ chars[1] = "5" /\ chars[2] = "5"
                 THEN SubSeq(chars, 3, Len(chars)) ELSE chars
      ddd == DigitVal(cleaned[1]) * 10 + DigitVal(cleaned[2])
  IN IF Len(cleaned) \notin {10, 11}
     THEN ValidationResult(FALSE, 0, "Telefone deve ter 10 ou 11 dígitos, encontrado: "
                                       \o ToString(Len(cleaned)), <<>>)
     ELSE IF ~isdigit(SubSeq(cleaned, 1, 2)) THEN Raised("ValueError")
     ELSE IF ddd \notin VALID_DDDS
     THEN ValidationResult(FALSE, 400, "DDD " \o ToString(ddd) \o " não é válido no Brasil",
                           <<Join(cleaned)>>)
     ELSE IF Len(cleaned) = 11 /\ cleaned[3] # "9"
     THEN ValidationResult(FALSE, 500, "Celular com 11 dígitos deve ter terceiro dígito = 9",
                           <<Join(cleaned)>>)
     ELSE IF AllSame(SubSeq(cleaned, 3, Len(cleaned)))
     THEN ValidationResult(FALSE, 200, "Telefone com dígitos repetidos", <<Join(cleaned)>>)
     ELSE ValidationResult(TRUE, 900,
                           "Telefone " \o (IF Len(cleaned) = 11 THEN "celular" ELSE "fixo")
                             \o " válido - DDD " \o ToString(ddd), <<Join(cleaned)>>)

PhoneValidator_validate(phone) == PhoneValidator_check(clean(phone))

COMMON_TLDS ==
  {"com", "com.br", "org", "org.br", "net", "net.br", "gov", "gov.br", "edu", "edu.br",
   "mil", "mil.br", "info", "biz", "io", "co", "br", "pt", "us", "uk", "de", "fr", "es", "it",
   "jp", "cn"}

\* ^[a-zA-Z0-9._%+-]+@[a-zA-Z0-9.-]+\.[a-zA-Z]{2,}$
EMAIL_PATTERN == Cat(<<Bol, EmailAddr, Eol>>)

EndsWith(s, suffix) ==
  Len(suffix) <= Len(s) /\ SubSeq(s, Len(s) - Len(suffix) + 1, Len(s)) = suffix
\* the offset of the last occurrence of the character c in s, -1 when there is none
LastIndex(s, c) ==
  LET at == {i \in 0..(Len(s) - 1) : Ch(s, i) = c}
  IN IF at = {} THEN -1 ELSE CHOOSE i \in at : \A j \in at : j <= i

EmailValidator_validate(value) ==
  LET email == StrLower(Strip(value))
      at == LastIndex(email, "@")
      local == Slice(email, 0, at)
      domain == Slice(email, at + 1, Len(email))
      tld == Slice(domain, LastIndex(domain, ".") + 1, Len(domain))
  IN IF M(EMAIL_PATTERN, email, 0) = <<>>
     THEN ValidationResult(FALSE, 0, "Formato de email inválido", <<>>)
     ELSE IF at = -1
     THEN ValidationResult(FALSE, 0, "Email deve conter exatamente um @", <<>>)
     ELSE IF Len(local) > 64
     THEN ValidationResult(FALSE, 300, "Parte local do email muito longa (máximo 64 caracteres)",
                           <<>>)
     ELSE IF Len(domain) > 255
     THEN ValidationResult(FALSE, 300, "Domínio do email muito longo (máximo 255 caracteres)",
                           <<>>)
     ELSE IF Len(tld) < 2
     THEN ValidationResult(FALSE, 300, "TLD do email inválido", <<>>)
     ELSE ValidationResult(TRUE,
                           IF \E t \in COMMON_TLDS : EndsWith(domain, "." \o t) THEN 950 ELSE 850,
                           "Email com formato válido", <<email>>)

regions ==
  <<"São Paulo - Capital", "São Paulo - Interior", "Rio de Janeiro / Espírito Santo",
    "Minas Gerais", "Bahia / Sergipe", "Nordeste (PE, AL, PB, RN)",
    "Norte/Nordeste (CE, PI, MA, PA, AM, AC, AP, RR)", "Centro-Oeste (GO, TO, MT, MS, DF)",
    "Sul (PR, SC)", "Rio Grande do Sul">>

CEPValidator_validate(cep) ==
  LET cleaned == clean(cep)
  IN IF Len(cleaned) # 8
     THEN ValidationResult(FALSE, 0, "CEP deve ter 8 dígitos, encontrado: "
                                       \o ToString(Len(cleaned)), <<>>)
     ELSE IF ~isdigit(cleaned)
     THEN ValidationResult(FALSE, 0, "CEP deve conter apenas dígitos", <<>>)
     ELSE IF AllSame(cleaned)
     THEN ValidationResult(FALSE, 0, "CEP com dígitos repetidos", <<>>)
     ELSE ValidationResult(TRUE, 850,
                           "CEP válido - Região: " \o regions[DigitVal(cleaned[1]) + 1],
                           <<Join(cleaned)>>)

\* self.validators: the validator registered for a base type, "" when there is none
ValidatorKinds == {"CPF", "CNPJ", "TELEFONE", "CELULAR", "EMAIL", "CEP"}
validate(kind, value) ==
  CASE kind = "CPF" -> CPFValidator_validate(value)
    [] kind = "CNPJ" -> CNPJValidator_validate(value)
    [] kind \in {"TELEFONE", "CELULAR"} -> PhoneValidator_validate(value)
    [] kind = "EMAIL" -> EmailValidator_validate(value)
    [] kind = "CEP" -> CEPValidator_validate(value)

----------------------------------------------------------------------------
(* detector.py: the named-entity stage and its fusion with the regex stage *)

BertEntity(type, value, start, end) ==
  Entity(type, value, start, end, 750, "bert", "Entidade detectada por análise contextual BERT")

\* the loop over the tokens; st holds entities, current_entity, current_start and
\* current_type; has = FALSE and "" stand for None
RECURSIVE BertLoop(_, _, _, _, _)
BertLoop(s, offs, labs, i, st) ==
  IF i > Len(offs) THEN st.entities
  ELSE LET offset == offs[i]
           label == labs[i]
           piece == Slice(s, offset[1], offset[2])
           entity_type == IF Contains(label, "PER") \/ Contains(label, "PERSON") THEN "NOME_PESSOA"
                          ELSE IF Contains(label, "LOC") \/ Contains(label, "GPE") THEN "ENDERECO"
                          ELSE IF Contains(label, "ORG") THEN "ORGANIZACAO"
                          ELSE ""
           pending == st.has /\ st.current_entity # ""
           next ==
             IF label # "O" /\ offset[1] # offset[2]
             THEN IF entity_type = "" THEN st
                  ELSE IF StartsWith(label, "B-") \/ st.current_type # entity_type
                  THEN [entities |-> IF pending
                                     THEN Append(st.entities,
                                                 BertEntity(st.current_type, st.current_entity,
                                                            st.current_start, offset[1]))
                                     ELSE st.entities,
                        has |-> TRUE, current_entity |-> piece, current_start |-> offset[1],
                        current_type |-> entity_type]
                  ELSE [st EXCEPT !.current_entity = @ \o piece]
             ELSE IF pending
                  THEN [entities |-> Append(st.entities,
                                            BertEntity(st.current_type, Strip(st.current_entity),
                                                       st.current_start, offset[1])),
                        has |-> FALSE, current_entity |-> "", current_start |-> 0,
                        current_type |-> ""]
                  ELSE st
       IN BertLoop(s, offs, labs, i + 1, next)

\* the adapter going on with the loop after the invocation has raised
bert_contextual_detection_partial(s, bert_model, found) ==
  IF bert_model = NoModel THEN <<>>
  ELSE BertLoop(s, found.offset_mapping, found.labels, 1,
                [entities |-> <<>>, has |-> FALSE, current_entity |-> "", current_start |-> 0,
                 current_type |-> ""])

\* found holds the tokenizer's offsets and the model's labels for s. When the
\* invocation raises, the except clause logs and the entities, still none, are returned.
bert_contextual_detection(s, bert_model, found) ==
  IF bert_model = NoModel THEN <<>>
  ELSE IF bert_model = FailingModel THEN <<>>
  ELSE BertLoop(s, found.offset_mapping, found.labels, 1,
                [entities |-> <<>>, has |-> FALSE, current_entity |-> "", current_start |-> 0,
                 current_type |-> ""])

\* _has_overlap
entities_overlap(entity1, entity2) ==
  ~(entity1.end <= entity2.start \/ entity2.end <= entity1.start)

\* the loop over the model's entities: the first regex entity that overlaps one
\* absorbs it, taking its confidence when that is higher
RECURSIVE MergeLoop(_, _, _, _)
MergeLoop(regex_matches, bert_matches, i, extra) ==
  IF i > Len(bert_matches) THEN regex_matches \o extra
  ELSE LET bert == bert_matches[i]
           hits == {j \in 1..Len(regex_matches) : entities_overlap(bert, regex_matches[j])}
           j == CHOOSE x \in hits : \A y \in hits : x <= y
           updated == IF hits # {} /\ bert.confidence > regex_matches[j].confidence
                      THEN [regex_matches EXCEPT ![j].confidence = bert.confidence,
                                                 ![j].detection_method = "hybrid"]
                      ELSE regex_matches
           more == IF hits = {} THEN Append(extra, bert) ELSE extra
       IN MergeLoop(updated, bert_matches, i + 1, more)

\* a fusion that appends every entity of the model
merge_detections_all(regex_matches, bert_matches) == regex_matches \o bert_matches
merge_detections(regex_matches, bert_matches) == MergeLoop(regex_matches, bert_matches, 1, <<>>)

----------------------------------------------------------------------------
(* detector.py: configuration, validation, thresholds and detect *)

STRICT == "strict"
BALANCED == "balanced"
PRECISE == "precise"
\* DetectionMode: the values of the enumeration
DetectionMode == {STRICT, BALANCED, PRECISE}

DetectionConfig(mode, use_bert, use_contextual, validate_documents, min_confidence, thresholds) ==
  [mode |-> mode, use_bert |-> use_bert, use_contextual |-> use_contextual,
   validate_documents |-> validate_documents, min_confidence |-> min_confidence,
   thresholds |-> thresholds]

\* the dataclass defaults
DefaultThresholds ==
  [CPF |-> 300, CNPJ |-> 400, TELEFONE |-> 400, CELULAR |-> 400, EMAIL |-> 700, CEP |-> 500,
   NOME |-> 600, RG |-> 500, DATA_NASCIMENTO |-> 600, DEFAULT |-> 500]
DefaultConfig(mode) == DetectionConfig(mode, TRUE, TRUE, TRUE, 500, DefaultThresholds)

\* the presets with the thresholds of strict and precise exchanged
get_config_for_mode_swapped(mode) ==
  IF mode = STRICT
  THEN [DefaultConfig(mode) EXCEPT
          !.min_confidence = 700,
          !.thresholds = [CPF |-> 700, CNPJ |-> 700, TELEFONE |-> 700, CELULAR |-> 700,
                          EMAIL |-> 800, CEP |-> 700, NOME |-> 800, DEFAULT |-> 700]]
  ELSE IF mode = PRECISE
  THEN [DefaultConfig(mode) EXCEPT
          !.min_confidence = 300,
          !.thresholds = [CPF |-> 200, CNPJ |-> 300, TELEFONE |-> 300, CELULAR |-> 300,
                          EMAIL |-> 500, CEP |-> 400, NOME |-> 400, DEFAULT |-> 300]]
  ELSE DefaultConfig(mode)

get_config_for_mode(mode) ==
  IF mode = STRICT
  THEN [DefaultConfig(mode) EXCEPT
          !.min_confidence = 300,
          !.thresholds = [CPF |-> 200, CNPJ |-> 300, TELEFONE |-> 300, CELULAR |-> 300,
                          EMAIL |-> 500, CEP |-> 400, NOME |-> 400, DEFAULT |-> 300]]
  ELSE IF mode = PRECISE
  THEN [DefaultConfig(mode) EXCEPT
          !.min_confidence = 700,
          !.thresholds = [CPF |-> 700, CNPJ |-> 700, TELEFONE |-> 700, CELULAR |-> 700,
                          EMAIL |-> 800, CEP |-> 700, NOME |-> 800, DEFAULT |-> 700]]
  ELSE DefaultConfig(mode)

\* type.replace('_CONTEXTUAL', ''): every occurrence is removed
BaseType(type) ==
  LET sub == "_CONTEXTUAL"
      occ == {i \in 0..(Len(type) - Len(sub)) : Slice(type, i, i + Len(sub)) = sub}
      kept == {i \in 0..(Len(type) - 1) : ~\E o \in occ : o <= i /\ i < o + Len(sub)}
      Nth(k) == CHOOSE i \in kept : Cardinality({j \in kept : j < i}) = k - 1
  IN Join(AsSeq([k \in 1..Cardinality(kept) |-> Ch(type, Nth(k))]))

\* the validation loop giving an entity that a validator without check digits returns
\* invalid the validator's confidence
ValidateEntity_doubted(entity, config) ==
  LET Checked(result) ==
        [entity EXCEPT !.validation_status = IF result.is_valid THEN "valid" ELSE "invalid",
                       !.validation_message = result.message]
      Kept(base_type, result, checked) ==
        IF result.is_valid
        THEN <<[checked EXCEPT
                  !.confidence = IF result.confidence > @ THEN result.confidence ELSE @,
                  !.explanation = @ \o " | Validação: " \o result.message]>>
        ELSE IF base_type \in {"CPF", "CNPJ"}
        THEN IF config.mode = STRICT
             THEN <<[checked EXCEPT !.confidence = @ \div 2,
                                    !.explanation = @ \o " | AVISO: " \o result.message]>>
             ELSE <<>>
        ELSE <<[checked EXCEPT !.confidence = result.confidence]>>
      Validated(base_type, result) == Kept(base_type, result, Checked(result))
      Typed(base_type) ==
        IF base_type \notin ValidatorKinds
        THEN <<[entity EXCEPT !.validation_status = "not_applicable"]>>
        ELSE Validated(base_type, validate(base_type, entity.value))
  IN Typed(BaseType(entity.type))

\* the validation loop giving an accepted entity the validator's confidence outright
ValidateEntity_assigned(entity, config) ==
  LET Checked(result) ==
        [entity EXCEPT !.validation_status = IF result.is_valid THEN "valid" ELSE "invalid",
                       !.validation_message = result.message]
      Kept(base_type, result, checked) ==
        IF result.is_valid
        THEN <<[checked EXCEPT
                  !.confidence = result.confidence,
                  !.explanation = @ \o " | Validação: " \o result.message]>>
        ELSE IF base_type \in {"CPF", "CNPJ"}
        THEN IF config.mode = STRICT
             THEN <<[checked EXCEPT !.confidence = @ \div 2,
                                    !.explanation = @ \o " | AVISO: " \o result.message]>>
             ELSE <<>>
        ELSE <<checked>>
      Validated(base_type, result) == Kept(base_type, result, Checked(result))
      Typed(base_type) ==
        IF base_type \notin ValidatorKinds
        THEN <<[entity EXCEPT !.validation_status = "not_applicable"]>>
        ELSE Validated(base_type, validate(base_type, entity.value))
  IN Typed(BaseType(entity.type))

\* the validation loop keeping a refused CPF or CNPJ in every mode
ValidateEntity_kept(entity, config) ==
  LET Checked(result) ==
        [entity EXCEPT !.validation_status = IF result.is_valid THEN "valid" ELSE "invalid",
                       !.validation_message = result.message]
      Kept(base_type, result, checked) ==
        IF result.is_valid
        THEN <<[checked EXCEPT
                  !.confidence = IF result.confidence > @ THEN result.confidence ELSE @,
                  !.explanation = @ \o " | Validação: " \o result.message]>>
        ELSE IF base_type \in {"CPF", "CNPJ"}
        THEN <<[checked EXCEPT !.confidence = @ \div 2,
                               !.explanation = @ \o " | AVISO: " \o result.message]>>
        ELSE <<checked>>
      Validated(base_type, result) == Kept(base_type, result, Checked(result))
      Typed(base_type) ==
        IF base_type \notin ValidatorKinds
        THEN <<[entity EXCEPT !.validation_status = "not_applicable"]>>
        ELSE Validated(base_type, validate(base_type, entity.value))
  IN Typed(BaseType(entity.type))

\* one turn of the validation loop: the entity as it is kept, or nothing
ValidateEntity(entity, config) ==
  LET Checked(result) ==
        [entity EXCEPT !.validation_status = IF result.is_valid THEN "valid" ELSE "invalid",
                       !.validation_message = result.message]
      Kept(base_type, result, checked) ==
        IF result.is_valid
        THEN <<[checked EXCEPT
                  !.confidence = IF result.confidence > @ THEN result.confidence ELSE @,
                  !.explanation = @ \o " | Validação: " \o result.message]>>
        ELSE IF base_type \in {"CPF", "CNPJ"}
        THEN IF config.mode = STRICT
             THEN <<[checked EXCEPT !.confidence = @ \div 2,
                                    !.explanation = @ \o " | AVISO: " \o result.message]>>
             ELSE <<>>
        ELSE <<checked>>
      Validated(base_type, result) == Kept(base_type, result, Checked(result))
      Typed(base_type) ==
        IF base_type \notin ValidatorKinds
        THEN <<[entity EXCEPT !.validation_status = "not_applicable"]>>
        ELSE Validated(base_type, validate(base_type, entity.value))
  IN Typed(BaseType(entity.type))

validate_consistency(entities, config) ==
  Concat([i \in 1..Len(entities) |-> ValidateEntity(entities[i], config)])

\* a threshold that lets every entity through
Threshold_none(config, base_type) == 0
\* thresholds.get(base_type, thresholds.get('DEFAULT', 0.5))
Threshold(config, base_type) ==
  IF base_type \in DOMAIN config.thresholds THEN config.thresholds[base_type]
  ELSE IF "DEFAULT" \in DOMAIN config.thresholds THEN config.thresholds["DEFAULT"]
  ELSE 500

\* the filter looking the type up with its suffix
apply_thresholds_suffixed(entities, config) ==
  SelectSeq(entities, LAMBDA e : e.confidence >= Threshold(config, e.type))

\* the filter with its comparison turned round
apply_thresholds_below(entities, config) ==
  SelectSeq(entities, LAMBDA e : e.confidence <= Threshold(config, BaseType(e.type)))

apply_thresholds(entities, config) ==
  SelectSeq(entities, LAMBDA e : e.confidence >= Threshold(config, BaseType(e.type)))

\* the test without the strip: not text
IsBlank_unstripped(s) == s = ""
\* not text or not text.strip()
IsBlank(s) == Strip(s) = ""

\* by_type[entity_type] = by_type.get(entity_type, 0) + 1
Counted(by_type, entity_type) ==
  [t \in DOMAIN by_type \cup {entity_type} |->
     IF t = entity_type THEN (IF t \in DOMAIN by_type THEN by_type[t] ELSE 0) + 1
     ELSE by_type[t]]
\* the summary loop with the types counted as they stand
RECURSIVE ByTypeLoop_raw(_, _, _)
ByTypeLoop_raw(entities, i, by_type) ==
  IF i > Len(entities) THEN by_type
  ELSE ByTypeLoop_raw(entities, i + 1, Counted(by_type, entities[i].type))
\* the summary loop: an entity is counted under its type less '_CONTEXTUAL'
RECURSIVE ByTypeLoop(_, _, _)
ByTypeLoop(entities, i, by_type) ==
  IF i > Len(entities) THEN by_type
  ELSE ByTypeLoop(entities, i + 1, Counted(by_type, BaseType(entities[i].type)))
\* by_type, from the empty dict
ByType(entities) == ByTypeLoop(entities, 1, <<>>)

\* configurations a caller may pass instead of a mode name
RaisedBalanced ==
  [DefaultConfig(BALANCED) EXCEPT
     !.thresholds = [k \in DOMAIN DefaultThresholds |-> DefaultThresholds[k] + 300]]
PlainConfig == DetectionConfig(BALANCED, FALSE, FALSE, FALSE, 500, DefaultThresholds)
CustomConfigs == {RaisedBalanced, PlainConfig}

\* the stages of detect past the blank-text return, each with what it produced
RunStages(s, config, bert_model) ==
  LET use_model == config.use_bert /\ bert_model # NoModel
      Fused(found) ==
        merge_detections(regex_detection_aggressive(s, found),
                         IF use_model THEN bert_contextual_detection(s, bert_model, found)
                         ELSE <<>>)
      Merged(fused, found) ==
        IF config.use_contextual THEN anti_false_negative_filter(fused, s, found) ELSE fused
      Validated(merged) ==
        IF config.validate_documents THEN validate_consistency(merged, config) ELSE merged
      Filtered(found) == apply_thresholds(Validated(Merged(Fused(found), found)), config)
  IN [filtered |-> Filtered(Searches(s)),
      stages |-> <<"regex">> \o (IF use_model THEN <<"bert">> ELSE <<>>) \o <<"merge">>
                 \o (IF config.use_contextual THEN <<"anti_fn">> ELSE <<>>)
                 \o (IF config.validate_documents THEN <<"validation">> ELSE <<>>)
                 \o <<"threshold">>]

\* The stages depend on the text, the config and the model alone, so over the texts,
\* the configs and the models of this module they are computed once.
ConfigList ==
  <<get_config_for_mode(STRICT), get_config_for_mode(BALANCED), get_config_for_mode(PRECISE),
    RaisedBalanced, PlainConfig>>
ModelList == <<NoModel, NerModel, FailingModel>>
StageTable ==
  AsSeq([i \in 1..Len(AllTexts) |->
    AsSeq([c \in 1..Len(ConfigList) |->
      AsSeq([m \in 1..Len(ModelList) |->
        RunStages(AllTexts[i], ConfigList[c], ModelList[m])])])])
Stages(s, config, bert_model) ==
  StageTable[CHOOSE i \in 1..Len(AllTexts) : AllTexts[i] = s]
            [CHOOSE c \in 1..Len(ConfigList) : ConfigList[c] = config]
            [CHOOSE m \in 1..Len(ModelList) : ModelList[m] = bert_model]

\* the DetectionResult of the early return
EmptyResult ==
  [has_pii |-> FALSE, entities |-> <<>>,
   summary |-> [total_entities |-> 0, by_type |-> <<>>],
   metadata |-> [processing_time_ms |-> 0, text_length |-> 0],
   stages |-> <<>>]
\* the DetectionResult built from the filtered entities
FullResult(filtered, stages, s, config, bert_model, elapsed) ==
  [has_pii |-> Len(filtered) > 0, entities |-> filtered,
   summary |-> [total_entities |-> Len(filtered), by_type |-> ByType(filtered)],
   metadata |-> [processing_time_ms |-> elapsed, text_length |-> Len(s),
                 mode |-> config.mode, bert_enabled |-> bert_model # NoModel],
   stages |-> stages]

\* detect with the entities cut by what the clock measured
detect_timed(s, config, bert_model, elapsed) ==
  LET Ran(run) == FullResult(SubSeq(run.filtered, elapsed, Len(run.filtered)), run.stages,
                             s, config, bert_model, elapsed)
  IN IF IsBlank(s) THEN EmptyResult ELSE Ran(Stages(s, config, bert_model))

\* detect on a detector with the given config and model; elapsed is what the clock
\* measured. The result goes with the stages that ran, in order.
detect(s, config, bert_model, elapsed) ==
  LET Ran(run) == FullResult(run.filtered, run.stages, s, config, bert_model, elapsed)
  IN IF IsBlank(s) THEN EmptyResult ELSE Ran(Stages(s, config, bert_model))

----------------------------------------------------------------------------
(* The detectors of a process and the calls made on them *)

MaxDetectors == 2
MaxCalls == 2

\* mode names a caller may pass; "turbo" is not a DetectionMode
ModeNames == DetectionMode \cup {"turbo"}
\* what the clock may measure for a call, in milliseconds
Elapsed == {1, 2}

\* __init__(mode, config): config is <<>> for None and <<c>> for the config c. The
\* outcome is the detector, or the error the constructor raised.
PIIGuardian_init(mode, config, available) ==
  IF config # <<>>
  THEN [error |-> "", config |-> config,
        bert_model |-> IF config[1].use_bert THEN available ELSE NoModel]
  ELSE IF mode \in DetectionMode
  THEN [error |-> "", config |-> <<get_config_for_mode(mode)>>,
        bert_model |-> IF get_config_for_mode(mode).use_bert THEN available ELSE NoModel]
  ELSE [error |-> "ValueError", config |-> <<>>, bert_model |-> NoModel]

NoResult == ValidationResult(FALSE, 0, "", <<>>)

Init ==
  /\ env \in NerModels
  /\ text \in {Texts[i] : i \in 1..Len(Texts)}
  /\ detectors = <<>>
  /\ calls = <<>>
  /\ vin = ""
  /\ vkind = ""
  /\ vout = NoResult
  /\ shown = <<>>

\* PIIGuardian(mode=..., config=...)
Construct(mode, config) ==
  /\ Len(detectors) < MaxDetectors
  /\ detectors' = Append(detectors, [mode |-> mode, config_given |-> config # <<>>,
                                     made |-> PIIGuardian_init(mode, config, env)])
  /\ UNCHANGED <<env, text, calls, vin, vkind, vout, shown>>

\* detector.detect(text) on the i-th detector
Detect(i, elapsed) ==
  /\ Len(calls) < MaxCalls
  /\ detectors[i].made.error = ""
  /\ calls' = Append(calls,
                     [detector |-> i, text |-> text, config |-> detectors[i].made.config[1],
                      result |-> detect(text, detectors[i].made.config[1],
                                        detectors[i].made.bert_model, elapsed)])
  /\ UNCHANGED <<env, text, detectors, vin, vkind, vout, shown>>

Next ==
  \/ \E mode \in ModeNames : Construct(mode, <<>>)
  \/ \E mode \in {BALANCED, "turbo"}, config \in CustomConfigs : Construct(mode, <<config>>)
  \/ \E i \in 1..Len(detectors), elapsed \in Elapsed : Detect(i, elapsed)

Spec == Init /\ [][Next]_vars

----------------------------------------------------------------------------
(* The deduplication of the pattern catalog on its own: on lists of matches of
   every shape within the bounds, and on the matches of the rules over the texts *)

MaxOffset == 4
MaxMatches == 3
Confidences == {600, 850}
Candidates ==
  {[type |-> "CPF", start |-> a, end |-> b, confidence |-> c] :
     a \in 0..(MaxOffset - 1), b \in 1..MaxOffset, c \in Confidences}
CandidateLists ==
  UNION {[1..n -> {m \in Candidates : m.start < m.end}] : n \in 0..MaxMatches}

InitCatalog ==
  /\ env = NoModel
  /\ \/ text = "" /\ vin \in CandidateLists
     \/ text \in {Texts[i] : i \in 1..Len(Texts)} /\ vin = <<>>
  /\ detectors = <<>>
  /\ calls = <<>>
  /\ vkind = ""
  /\ vout = NoResult
  /\ shown = <<>>

\* patterns._deduplicate_matches(vin)
Deduplicate ==
  /\ vkind = ""
  /\ vkind' = "deduplicate_matches"
  /\ vout' = [matches |-> vin, kept |-> deduplicate_matches(vin)]
  /\ UNCHANGED <<env, text, detectors, calls, vin, shown>>

\* patterns.find_all(text): the matches of every rule, then the deduplication
FindAll ==
  /\ vkind = ""
  /\ vin = <<>>
  /\ vkind' = "find_all"
  /\ LET Scanned(matches) == [matches |-> matches, kept |-> deduplicate_matches(matches)]
     IN vout' = Scanned(AllRuleMatches(compiled_patterns, text))
  /\ UNCHANGED <<env, text, detectors, calls, vin, shown>>

NextCatalog ==
  \/ Deduplicate
  \/ FindAll

SpecCatalog == InitCatalog /\ [][NextCatalog]_vars

----------------------------------------------------------------------------
(* The fusion on its own: on lists of entities of every shape within the bounds, and
   on what the regex stage and the model's adapter find in the texts *)

MaxHits == 2
\* entities of the regex stage: a span within MaxOffset and one of two confidences
PatternHits ==
  {Entity("CPF", "", a, b, c, "regex", "") :
     a \in 0..(MaxOffset - 1), b \in 1..MaxOffset, c \in {600, 900}}
\* entities of the adapter: its fixed confidence, and an end after the start or the
\* end 0 that the closing special token gives
ExternalHits ==
  {Entity("NOME_PESSOA", "", a, b, 750, "bert", "") :
     a \in 0..(MaxOffset - 1), b \in 0..MaxOffset}
HitLists(hits) == UNION {[1..n -> hits] : n \in 0..MaxHits}

InitFusion ==
  /\ env = NerModel
  /\ \/ /\ text = ""
        /\ vin \in {<<r, b>> : r \in HitLists({h \in PatternHits : h.start < h.end}),
                               b \in HitLists({h \in ExternalHits : h.start < h.end \/ h.end = 0})}
     \/ /\ text \in {Texts[i] : i \in 1..Len(Texts)} \ {""}
        /\ vin = <<>>
  /\ detectors = <<>>
  /\ calls = <<>>
  /\ vkind = ""
  /\ vout = NoResult
  /\ shown = <<>>

\* detector._merge_detections(vin[1], vin[2])
Merge ==
  /\ vkind = ""
  /\ vin # <<>>
  /\ vkind' = "merge"
  /\ vout' = [regex_matches |-> vin[1], bert_matches |-> vin[2],
              merged |-> merge_detections(vin[1], vin[2])]
  /\ UNCHANGED <<env, text, detectors, calls, vin, shown>>

\* the first three stages of detect on the text, with the model loaded
MergeStages ==
  /\ vkind = ""
  /\ vin = <<>>
  /\ vkind' = "merge"
  /\ LET Found(found) ==
           LET regex_matches == regex_detection_aggressive(text, found)
               bert_matches == bert_contextual_detection(text, NerModel, found)
           IN [regex_matches |-> regex_matches, bert_matches |-> bert_matches,
               merged |-> merge_detections(regex_matches, bert_matches)]
     IN vout' = Found(Searches(text))
  /\ UNCHANGED <<env, text, detectors, calls, vin, shown>>

NextFusion ==
  \/ Merge
  \/ MergeStages

SpecFusion == InitFusion /\ [][NextFusion]_vars

----------------------------------------------------------------------------
(* utils.py: mask_pii and anonymize_text, applied to the text and the entities of a call *)

\* Entity.to_dict()
to_dict(e) ==
  [type |-> e.type, value |-> e.value, start |-> e.start, end |-> e.end,
   confidence |-> e.confidence, validation |-> e.validation_status,
   validation_message |-> e.validation_message, detection_method |-> e.detection_method,
   explanation |-> e.explanation]

\* s[:n] and s[n:] for n >= 0
Upto(s, n) == SubSeq(s, 1, IF n < Len(s) THEN n ELSE Len(s))
From(s, n) == SubSeq(s, (IF n < Len(s) THEN n ELSE Len(s)) + 1, Len(s))
\* c * n
Times(c, n) == Join(AsSeq([i \in 1..(IF n > 0 THEN n ELSE 0) |-> c]))

\* sorted(entities, key=start, reverse=True): equal starts keep their order
ByStartDescending(entities) ==
  LET Later(a, b) == a.start > b.start
  IN StableSortBy(entities, Later)

\* the mask of a value: its first and last two characters kept when it has more than four
Masked(value, mask_char) ==
  IF Len(value) > 4
  THEN SubSeq(value, 1, 2) \o Times(mask_char, Len(value) - 4)
       \o SubSeq(value, Len(value) - 1, Len(value))
  ELSE Times(mask_char, Len(value))

\* result = result[:start] + replacement + result[end:]
Substituted(result, entity, replacement) ==
  IF entity.start >= 0 /\ entity.end > entity.start
  THEN Upto(result, entity.start) \o replacement \o From(result, entity.end)
  ELSE result

RECURSIVE MaskLoop(_, _, _, _)
MaskLoop(result, sorted_entities, i, mask_char) ==
  IF i > Len(sorted_entities) THEN result
  ELSE MaskLoop(Substituted(result, sorted_entities[i],
                            Masked(sorted_entities[i].value, mask_char)),
                sorted_entities, i + 1, mask_char)

\* mask_pii(text, entities, mask_char): the text returned, and the entities as the
\* call leaves them (they are only read)
mask_pii(s, entities, mask_char) ==
  [out |-> IF Len(entities) = 0 THEN s
           ELSE MaskLoop(s, ByStartDescending(entities), 1, mask_char),
   entities |-> entities]

placeholders ==
  [CPF |-> "[CPF_REMOVIDO]", CNPJ |-> "[CNPJ_REMOVIDO]", TELEFONE |-> "[TELEFONE_REMOVIDO]",
   CELULAR |-> "[CELULAR_REMOVIDO]", EMAIL |-> "[EMAIL_REMOVIDO]", CEP |-> "[CEP_REMOVIDO]",
   NOME_PESSOA |-> "[NOME_REMOVIDO]", ENDERECO |-> "[ENDERECO_REMOVIDO]",
   RG |-> "[RG_REMOVIDO]", DATA_NASCIMENTO |-> "[DATA_REMOVIDA]"]

\* placeholders.get(entity_type, f'[{entity_type}_REMOVIDO]') of the type without _CONTEXTUAL
Placeholder(type) ==
  LET Of(entity_type) == IF entity_type \in DOMAIN placeholders THEN placeholders[entity_type]
                         ELSE "[" \o entity_type \o "_REMOVIDO]"
  IN Of(BaseType(type))

RECURSIVE AnonymizeLoop(_, _, _)
AnonymizeLoop(result, sorted_entities, i) ==
  IF i > Len(sorted_entities) THEN result
  ELSE AnonymizeLoop(Substituted(result, sorted_entities[i],
                                 Placeholder(sorted_entities[i].type)),
                     sorted_entities, i + 1)

\* anonymize_text(text, entities)
anonymize_text(s, entities) ==
  [out |-> IF Len(entities) = 0 THEN s
           ELSE AnonymizeLoop(s, ByStartDescending(entities), 1),
   entities |-> entities]

\* the texts transformed, the mask character a caller passes, and how many
\* transformations a behaviour makes
TransformTexts == {"   ", "(61) 99999-8888", "Maria Silva mora em Brasília", "CPF: 529.982.247-25"}
MaskChars == {"*"}
MaxShown == 1

InitTransform ==
  /\ env \in NerModels
  /\ text \in TransformTexts
  /\ detectors = <<>>
  /\ calls = <<>>
  /\ vin = ""
  /\ vkind = ""
  /\ vout = NoResult
  /\ shown = <<>>

\* mask_pii(text, [e.to_dict() for e in result.entities], mask_char) after the call c
MaskPii(c, mask_char) ==
  /\ Len(shown) < MaxShown
  /\ LET entities == AsSeq([i \in 1..Len(calls[c].result.entities) |->
                             to_dict(calls[c].result.entities[i])])
         made == mask_pii(calls[c].text, entities, mask_char)
     IN shown' = Append(shown, [call |-> c, by |-> "mask_pii", mask_char |-> mask_char,
                                given |-> entities, entities |-> made.entities,
                                out |-> made.out, again |-> <<>>])
  /\ UNCHANGED <<env, text, detectors, calls, vin, vkind, vout>>

\* anonymize_text(text, [e.to_dict() for e in result.entities]) after the call c
AnonymizeText(c) ==
  /\ Len(shown) < MaxShown
  /\ LET entities == AsSeq([i \in 1..Len(calls[c].result.entities) |->
                             to_dict(calls[c].result.entities[i])])
         made == anonymize_text(calls[c].text, entities)
     IN shown' = Append(shown, [call |-> c, by |-> "anonymize_text", mask_char |-> "",
                                given |-> entities, entities |-> made.entities,
                                out |-> made.out, again |-> <<>>])
  /\ UNCHANGED <<env, text, detectors, calls, vin, vkind, vout>>

\* detector.detect(out) on the detector of the call, out being the k-th text made
DetectAgain(k, elapsed) ==
  /\ shown[k].again = <<>>
  /\ LET made == detectors[calls[shown[k].call].detector].made
     IN shown' = [shown EXCEPT ![k].again =
                    <<detect(shown[k].out, made.config[1], made.bert_model, elapsed)>>]
  /\ UNCHANGED <<env, text, detectors, calls, vin, vkind, vout>>

NextTransform ==
  \/ \E mode \in DetectionMode : Construct(mode, <<>>)
  \/ \E i \in 1..Len(detectors), elapsed \in Elapsed : Detect(i, elapsed)
  \/ \E c \in 1..Len(calls), mask_char \in MaskChars : MaskPii(c, mask_char)
  \/ \E c \in 1..Len(calls) : AnonymizeText(c)
  \/ \E k \in 1..Len(shown), elapsed \in Elapsed : DetectAgain(k, elapsed)

SpecTransform == InitTransform /\ [][NextTransform]_vars

----------------------------------------------------------------------------
(* Calls of detect during which the external model may fail *)

\* detector.detect(text) on the i-th detector; when the detector has a model, its
\* invocation in this call answers or raises
DetectInvoking(i, elapsed, invocation) ==
  /\ Len(calls) < MaxCalls
  /\ detectors[i].made.error = ""
  /\ calls' = Append(calls,
                     [detector |-> i, text |-> text, config |-> detectors[i].made.config[1],
                      bert_model |-> detectors[i].made.bert_model, invocation |-> invocation,
                      result |-> detect(text, detectors[i].made.config[1],
                                        IF detectors[i].made.bert_model # NoModel
                                           /\ invocation = "raises"
                                        THEN FailingModel ELSE detectors[i].made.bert_model,
                                        elapsed)])
  /\ UNCHANGED <<env, text, detectors, vin, vkind, vout, shown>>

NextFailure ==
  \/ \E mode \in DetectionMode : Construct(mode, <<>>)
  \/ \E config \in CustomConfigs : Construct(BALANCED, <<config>>)
  \/ \E i \in 1..Len(detectors), elapsed \in Elapsed, invocation \in {"answers", "raises"} :
       DetectInvoking(i, elapsed, invocation)

SpecFailure == Init /\ [][NextFailure]_vars

----------------------------------------------------------------------------
(* Calls of detect on one detector from several threads: a call goes through detect a
   stage at a time with its own local variables, reading the attributes of the detector
   as each stage comes to them; the stages of other calls come in between. *)

\* the texts the threads hand to detect
ConcurrentTexts == {"   ", "dr Joao Silva", "CPF: 111.111.111-11"}

\* a stage that sets the mode of the instance it runs on
InstanceAfterStage_modeset(self) == [self EXCEPT !.config = <<get_config_for_mode(PRECISE)>>]
\* the detector after a stage of detect has run on it: detect and the methods it calls
\* assign no attribute of self, and change no object that self holds
InstanceAfterStage(self) == self

\* the detector of the c-th call, as it is now
Self(c) == detectors[calls[c].detector].made
\* the c-th call has done a stage: its local variables as given, the stage named
Advance(c, locals, stage, pc) ==
  /\ calls' = [calls EXCEPT ![c] = [locals EXCEPT !.pc = pc, !.stages = @ \o stage]]
  /\ detectors' = [detectors EXCEPT ![calls[c].detector].made = InstanceAfterStage(@)]
  /\ UNCHANGED <<env, text, vin, vkind, vout, shown>>

InitConcurrent ==
  /\ env \in NerModels
  /\ text = ""
  /\ detectors \in {<<[mode |-> mode, config_given |-> FALSE,
                        made |-> PIIGuardian_init(mode, <<>>, env)]>> : mode \in DetectionMode}
  /\ calls = <<>>
  /\ vin = ""
  /\ vkind = ""
  /\ vout = NoResult
  /\ shown = <<>>

\* a thread calls detector.detect(t): the early return for a blank text, else the
\* pipeline is entered
Call(t) ==
  /\ Len(calls) < MaxCalls
  /\ calls' = Append(calls,
                     [detector |-> 1, text |-> t, pc |-> IF IsBlank(t) THEN "done" ELSE "regex",
                      regex_matches |-> <<>>, bert_matches |-> <<>>, merged |-> <<>>,
                      validated |-> <<>>, filtered |-> <<>>, stages |-> <<>>, elapsed |-> 0,
                      result |-> IF IsBlank(t) THEN EmptyResult ELSE <<>>])
  /\ UNCHANGED <<env, text, detectors, vin, vkind, vout, shown>>

\* regex_matches = self._regex_detection_aggressive(text)
RegexStage(c) ==
  /\ calls[c].pc = "regex"
  /\ Advance(c, [calls[c] EXCEPT !.regex_matches =
                   regex_detection_aggressive(calls[c].text, Searches(calls[c].text))],
             <<"regex">>, "bert")

\* if self.config.use_bert and self.bert_model: bert_matches = ...
BertStage(c) ==
  /\ calls[c].pc = "bert"
  /\ IF Self(c).config[1].use_bert /\ Self(c).bert_model # NoModel
     THEN Advance(c, [calls[c] EXCEPT !.bert_matches =
                        bert_contextual_detection(calls[c].text, Self(c).bert_model,
                                                  Searches(calls[c].text))],
                  <<"bert">>, "merge")
     ELSE Advance(c, calls[c], <<>>, "merge")

\* merged = self._merge_detections(regex_matches, bert_matches)
FusionStage(c) ==
  /\ calls[c].pc = "merge"
  /\ Advance(c, [calls[c] EXCEPT !.merged =
                   merge_detections(calls[c].regex_matches, calls[c].bert_matches)],
             <<"merge">>, "anti_fn")

\* if self.config.use_contextual: merged = self._anti_false_negative_filter(merged, text)
AntiFnStage(c) ==
  /\ calls[c].pc = "anti_fn"
  /\ IF Self(c).config[1].use_contextual
     THEN Advance(c, [calls[c] EXCEPT !.merged =
                        anti_false_negative_filter(@, calls[c].text, Searches(calls[c].text))],
                  <<"anti_fn">>, "validation")
     ELSE Advance(c, calls[c], <<>>, "validation")

\* validated = self._validate_consistency(merged) if self.config.validate_documents
ValidationStage(c) ==
  /\ calls[c].pc = "validation"
  /\ IF Self(c).config[1].validate_documents
     THEN Advance(c, [calls[c] EXCEPT !.validated =
                        validate_consistency(calls[c].merged, Self(c).config[1])],
                  <<"validation">>, "threshold")
     ELSE Advance(c, [calls[c] EXCEPT !.validated = calls[c].merged], <<>>, "threshold")

\* filtered = self._apply_thresholds(validated)
ThresholdStage(c) ==
  /\ calls[c].pc = "threshold"
  /\ Advance(c, [calls[c] EXCEPT !.filtered =
                   apply_thresholds(calls[c].validated, Self(c).config[1])],
             <<"threshold">>, "result")

\* the result is built and returned; elapsed is what the clock measured
Return(c, elapsed) ==
  /\ calls[c].pc = "result"
  /\ Advance(c, [calls[c] EXCEPT !.result =
                   FullResult(calls[c].filtered, calls[c].stages, calls[c].text,
                              Self(c).config[1], Self(c).bert_model, elapsed),
                                 !.elapsed = elapsed],
             <<>>, "done")

NextConcurrent ==
  \/ \E t \in ConcurrentTexts : Call(t)
  \/ \E c \in 1..Len(calls) : RegexStage(c)
  \/ \E c \in 1..Len(calls) : BertStage(c)
  \/ \E c \in 1..Len(calls) : FusionStage(c)
  \/ \E c \in 1..Len(calls) : AntiFnStage(c)
  \/ \E c \in 1..Len(calls) : ValidationStage(c)
  \/ \E c \in 1..Len(calls) : ThresholdStage(c)
  \/ \E c \in 1..Len(calls), elapsed \in Elapsed : Return(c, elapsed)

SpecConcurrent == InitConcurrent /\ [][NextConcurrent]_vars

----------------------------------------------------------------------------
(* One call of detect at a time, a stage at a time, on a detector of any
   configuration and over every text *)

\* a configuration that does not validate, with the raised thresholds
UnvalidatedRaised ==
  DetectionConfig(BALANCED, FALSE, TRUE, FALSE, 500, RaisedBalanced.thresholds)
StageConfigs == CustomConfigs \cup {UnvalidatedRaised}

InitStages ==
  /\ env \in NerModels
  /\ text = ""
  /\ detectors \in
       {<<[mode |-> mode, config_given |-> FALSE,
           made |-> PIIGuardian_init(mode, <<>>, env)]>> : mode \in DetectionMode}
       \cup {<<[mode |-> BALANCED, config_given |-> TRUE,
                made |-> PIIGuardian_init(BALANCED, <<config>>, env)]>> : config \in StageConfigs}
  /\ calls = <<>>
  /\ vin = ""
  /\ vkind = ""
  /\ vout = NoResult
  /\ shown = <<>>

\* detector.detect(t), no other call being under way
CallAlone(t) ==
  /\ calls = <<>>
  /\ Call(t)

NextStages ==
  \/ \E i \in 1..Len(Texts) : CallAlone(Texts[i])
  \/ \E c \in 1..Len(calls) : RegexStage(c)
  \/ \E c \in 1..Len(calls) : BertStage(c)
  \/ \E c \in 1..Len(calls) : FusionStage(c)
  \/ \E c \in 1..Len(calls) : AntiFnStage(c)
  \/ \E c \in 1..Len(calls) : ValidationStage(c)
  \/ \E c \in 1..Len(calls) : ThresholdStage(c)
  \/ \E c \in 1..Len(calls), elapsed \in Elapsed : Return(c, elapsed)

SpecStages == InitStages /\ [][NextStages]_vars

----------------------------------------------------------------------------
(* scripts/batch_process.py: a BatchProcessor over a list of records, its worker
   threads and its statistics; utils.normalize_text *)

\* re.sub(r'[\x00-\x08\x0b\x0c\x0e-\x1f\x7f]', '', text): of the characters of the texts
\* here the class holds the form feed
ControlChars == {"\f"}
RECURSIVE Uncontrolled(_)
Uncontrolled(s) ==
  IF s = "" THEN ""
  ELSE (IF Ch(s, 0) \in ControlChars THEN "" ELSE Ch(s, 0)) \o Uncontrolled(Slice(s, 1, Len(s)))
\* text.replace('\r\n', '\n').replace('\r', '\n')
RECURSIVE Newlines(_)
Newlines(s) ==
  IF s = "" THEN ""
  ELSE IF Ch(s, 0) = "\r"
  THEN "\n" \o Newlines(Slice(s, IF Len(s) > 1 /\ Ch(s, 1) = "\n" THEN 2 ELSE 1, Len(s)))
  ELSE Ch(s, 0) \o Newlines(Slice(s, 1, Len(s)))
\* s.split(sep) for a separator of one character
RECURSIVE SplitOn(_, _)
SplitOn(s, sep) ==
  IF \E i \in 0..(Len(s) - 1) : Ch(s, i) = sep
  THEN LET i == CHOOSE k \in 0..(Len(s) - 1) :
                  Ch(s, k) = sep /\ \A j \in 0..(k - 1) : Ch(s, j) # sep
       IN <<Slice(s, 0, i)>> \o SplitOn(Slice(s, i + 1, Len(s)), sep)
  ELSE <<s>>
\* s.split(): the runs of characters that are not white space
RECURSIVE Words(_)
Words(s) ==
  LET from == StripStart(s)
      rest == Slice(s, from, Len(s))
      to == IF \E i \in 0..(Len(rest) - 1) : Ch(rest, i) \in Space
            THEN CHOOSE i \in 0..(Len(rest) - 1) :
                   Ch(rest, i) \in Space /\ \A j \in 0..(i - 1) : Ch(rest, j) \notin Space
            ELSE Len(rest)
  IN IF from = Len(s) THEN <<>>
     ELSE <<Slice(rest, 0, to)>> \o Words(Slice(rest, to, Len(rest)))
\* sep.join(parts)
RECURSIVE JoinWith(_, _)
JoinWith(parts, sep) ==
  IF parts = <<>> THEN ""
  ELSE IF Len(parts) = 1 THEN parts[1]
  ELSE parts[1] \o sep \o JoinWith(Tail(parts), sep)

normalize_text(s) ==
  LET lines == SplitOn(Newlines(Uncontrolled(s)), "\n")
      spaced == [i \in 1..Len(lines) |-> JoinWith(Words(lines[i]), " ")]
  IN IF s = "" THEN "" ELSE Strip(JoinWith(spaced, "\n"))

\* a cell of the text column: a string, or a number as a JSON file may hold
Str(s) == [str |-> s]
NumberCell == [number |-> 12345]
BatchCells ==
  {Str("(61) 99999-8888"), Str("  CPF:   529.982.247-25 "), Str("Maria Silva\r\n"), NumberCell}
MaxRecords == 2
MaxWorkers == 2
\* the lists of records a batch is made of; the records have no id column
RecordLists ==
  UNION {[1..n -> {[text |-> cell] : cell \in BatchCells}] : n \in 0..MaxRecords}

\* self.stats as __init__ leaves it
NoStats ==
  [total_processed |-> 0, total_with_pii |-> 0, total_entities |-> 0, total_time_ms |-> 0,
   by_type |-> <<>>, errors |-> 0]

\* process_text(text, record_id) on the processor's detector; elapsed is what the clock
\* of detect measured. has_pii is <<>> for None.
process_text(made, cell, record_id, elapsed) ==
  LET Answer(result) ==
        [id |-> record_id, has_pii |-> <<result.has_pii>>,
         entities |-> [i \in 1..Len(result.entities) |-> to_dict(result.entities[i])],
         entity_count |-> Len(result.entities),
         processing_time_ms |-> result.metadata.processing_time_ms, error |-> ""]
  IN IF "str" \in DOMAIN cell
     THEN Answer(detect(IF cell.str # "" THEN normalize_text(cell.str) ELSE "",
                        made.config[1], made.bert_model, elapsed))
     ELSE [id |-> record_id, has_pii |-> <<>>, entities |-> <<>>, entity_count |-> 0,
           processing_time_ms |-> 0,
           error |-> "expected string or bytes-like object, got 'int'"]

\* the by_type loop of _update_stats
RECURSIVE TypesCounted(_, _, _)
TypesCounted(entities, i, by_type) ==
  IF i > Len(entities) THEN by_type
  ELSE TypesCounted(entities, i + 1, Counted(by_type, entities[i].type))

\* _update_stats(result), on the statistics as the thread read them
update_stats(stats, result) ==
  LET processed == [stats EXCEPT !.total_processed = @ + 1]
  IN IF result.error # "" THEN [processed EXCEPT !.errors = @ + 1]
     ELSE IF result.has_pii = <<TRUE>>
     THEN [processed EXCEPT !.total_with_pii = @ + 1,
                            !.total_entities = @ + result.entity_count,
                            !.by_type = TypesCounted(result.entities, 1, @)]
     ELSE processed

\* the thread of the caller of process_batch; the worker thread of a future goes by
\* the future's number
MainThread == 0
\* the thread that runs _update_stats on the result of the i-th future: the caller,
\* in its as_completed loop
StatsThread_worker(i) == i
StatsThread(i) == MainThread

\* the caller is between two turns of its loop: it has updated the statistics for
\* every result it has taken
MainIdle ==
  \A j \in 1..Len(calls) :
    (calls[j].yielded /\ StatsThread(j) = MainThread) => calls[j].stats = "written"
Running == {j \in 1..Len(calls) : calls[j].state = "running"}

\* BatchProcessor(mode, workers) and the call process_batch(records); the statistics
\* are those of a new processor or of one that has processed a record before
InitBatch ==
  /\ env \in NerModels
  /\ text = ""
  /\ detectors \in {<<[mode |-> mode, config_given |-> FALSE,
                       made |-> PIIGuardian_init(mode, <<>>, env)]>> : mode \in DetectionMode}
  /\ calls = <<>>
  /\ vin \in RecordLists
  /\ vkind \in {"parallel", "sequential"}
  /\ \E workers \in 1..MaxWorkers, before \in {NoStats, update_stats(NoStats,
          process_text(detectors[1].made, Str("(61) 99999-8888"), "0", 1))} :
       /\ vkind = (IF workers > 1 THEN "parallel" ELSE "sequential")
       /\ vout = [workers |-> workers, results |-> <<>>, stats |-> before, before |-> before,
                  progress_counter |-> 0]
  /\ shown = <<>>

\* future = executor.submit(self.process_text, text, record_id)
Submit ==
  /\ vkind = "parallel"
  /\ Len(calls) < Len(vin)
  /\ calls' = Append(calls, [record |-> Len(calls) + 1, id |-> ToString(Len(calls)),
                             state |-> "queued", result |-> <<>>, yielded |-> FALSE,
                             stats |-> "none", seen |-> <<>>])
  /\ UNCHANGED <<env, text, detectors, vin, vkind, vout, shown>>

\* a free worker thread takes the oldest task of the queue
Start(i) ==
  /\ calls[i].state = "queued"
  /\ \A j \in 1..(i - 1) : calls[j].state # "queued"
  /\ Cardinality(Running) < vout.workers
  /\ calls' = [calls EXCEPT ![i].state = "running"]
  /\ UNCHANGED <<env, text, detectors, vin, vkind, vout, shown>>

\* the worker's process_text returns and the future is done
Finish(i, elapsed) ==
  /\ calls[i].state = "running"
  /\ calls' = [calls EXCEPT ![i].state = "finished",
                            ![i].result = <<process_text(detectors[1].made, vin[i].text,
                                                         calls[i].id, elapsed)>>]
  /\ UNCHANGED <<env, text, detectors, vin, vkind, vout, shown>>

\* a turn of "for future in as_completed(futures)": a future that is done and not yet
\* handed out; results.append(result) and the progress counter under its lock
Collect(i) ==
  /\ vkind = "parallel"
  /\ Len(calls) = Len(vin)
  /\ MainIdle
  /\ calls[i].state = "finished"
  /\ ~calls[i].yielded
  /\ calls' = [calls EXCEPT ![i].yielded = TRUE]
  /\ vout' = [vout EXCEPT !.results = Append(@, calls[i].result[1]),
                          !.progress_counter = @ + 1]
  /\ UNCHANGED <<env, text, detectors, vin, vkind, shown>>

\* a turn of the sequential loop: result = self.process_text(text, record_id) and
\* results.append(result)
Process(elapsed) ==
  /\ vkind = "sequential"
  /\ Len(calls) < Len(vin)
  /\ \A j \in 1..Len(calls) : calls[j].stats = "written"
  /\ LET i == Len(calls) + 1
         Taken(result) ==
           /\ calls' = Append(calls, [record |-> i, id |-> ToString(i - 1),
                                      state |-> "finished", result |-> <<result>>,
                                      yielded |-> TRUE, stats |-> "none", seen |-> <<>>])
           /\ vout' = [vout EXCEPT !.results = Append(@, result)]
     IN Taken(process_text(detectors[1].made, vin[i].text, ToString(i - 1), elapsed))
  /\ UNCHANGED <<env, text, detectors, vin, vkind, shown>>

\* _update_stats(result) reads self.stats
UpdateRead(i) ==
  /\ calls[i].state = "finished"
  /\ calls[i].stats = "none"
  /\ (vkind = "sequential" \/ StatsThread(i) = MainThread) => calls[i].yielded
  /\ calls' = [calls EXCEPT ![i].stats = "read", ![i].seen = <<vout.stats>>]
  /\ UNCHANGED <<env, text, detectors, vin, vkind, vout, shown>>

\* _update_stats(result) writes self.stats
UpdateWrite(i) ==
  /\ calls[i].stats = "read"
  /\ calls' = [calls EXCEPT ![i].stats = "written"]
  /\ vout' = [vout EXCEPT !.stats = update_stats(calls[i].seen[1], calls[i].result[1])]
  /\ UNCHANGED <<env, text, detectors, vin, vkind, shown>>

\* the loops are over and the executor is shut down: total_time_ms is set and the
\* results are returned
ReturnBatch(elapsed) ==
  /\ vkind \in {"parallel", "sequential"}
  /\ Len(calls) = Len(vin)
  /\ \A j \in 1..Len(calls) : calls[j].yielded /\ calls[j].stats = "written"
  /\ vkind' = "returned"
  /\ vout' = [vout EXCEPT !.stats.total_time_ms = elapsed]
  /\ UNCHANGED <<env, text, detectors, calls, vin, shown>>

NextBatch ==
  \/ Submit
  \/ \E i \in 1..Len(calls) : Start(i)
  \/ \E i \in 1..Len(calls), elapsed \in Elapsed : Finish(i, elapsed)
  \/ \E i \in 1..Len(calls) : Collect(i)
  \/ \E elapsed \in Elapsed : Process(elapsed)
  \/ \E i \in 1..Len(calls) : UpdateRead(i)
  \/ \E i \in 1..Len(calls) : UpdateWrite(i)
  \/ \E elapsed \in Elapsed : ReturnBatch(elapsed)

SpecBatch == InitBatch /\ [][NextBatch]_vars

----------------------------------------------------------------------------
(* One entity of every type and confidence that a stage of detect can make, of every
   kind of value, through fusion, validation and thresholds in a preset *)

\* the types and confidences of the catalog's rules, of the contextual catalog's rules
\* and of the entities written into the stages of detector.py
CatalogSources ==
  {[type |-> compiled_patterns[i].pii_type, confidence |-> compiled_patterns[i].min_confidence] :
     i \in 1..Len(compiled_patterns)}
ContextualSources ==
  UNION {{[type |-> pattern_groups[g].name \o "_CONTEXTUAL",
           confidence |-> pattern_groups[g].patterns[k].confidence] :
            k \in 1..Len(pattern_groups[g].patterns)} : g \in 1..Len(pattern_groups)}
WrittenSources ==
  {[type |-> "CPF", confidence |-> 700], [type |-> "TELEFONE", confidence |-> 750],
   [type |-> "TELEFONE_CONTEXTUAL", confidence |-> 880],
   [type |-> "CPF_CONTEXTUAL", confidence |-> 850],
   [type |-> "NOME_PESSOA", confidence |-> 750], [type |-> "ENDERECO", confidence |-> 750],
   [type |-> "ORGANIZACAO", confidence |-> 750], [type |-> "OUTRO", confidence |-> 750]}
Sources == CatalogSources \cup ContextualSources \cup WrittenSources
\* values that the validators accept and values that they refuse
SourceValues ==
  {"529.982.247-25", "111.111.111-11", "11.222.333/0001-81", "11.111.111/1111-11",
   "(61) 99999-8888", "99999-8888", "a@b.xyz", "70000-000"}

InitSources ==
  /\ env \in NerModels
  /\ text = ""
  /\ detectors \in {<<[mode |-> mode, config_given |-> FALSE,
                       made |-> PIIGuardian_init(mode, <<>>, env)]>> : mode \in DetectionMode}
  /\ calls = <<>>
  /\ vin \in {<<Entity(source.type, value, 0, Len(value), source.confidence, "regex", "")>> :
                source \in Sources, value \in SourceValues}
  /\ vkind = "entity"
  /\ vout = [merged |-> vin, validated |-> <<>>, filtered |-> <<>>]
  /\ shown = <<>>

\* the fusion finds an entity of the model over the entity
FuseOne ==
  /\ vkind = "entity"
  /\ detectors[1].made.bert_model # NoModel
  /\ vkind' = "fused"
  /\ vout' = [vout EXCEPT !.merged =
                merge_detections(vin, <<BertEntity("NOME_PESSOA", vin[1].value,
                                                   vin[1].start, vin[1].end)>>)]
  /\ UNCHANGED <<env, text, detectors, calls, vin, shown>>

ValidateOne ==
  /\ vkind \in {"entity", "fused"}
  /\ vkind' = "validated"
  /\ vout' = [vout EXCEPT !.validated =
                IF detectors[1].made.config[1].validate_documents
                THEN validate_consistency(vout.merged, detectors[1].made.config[1])
                ELSE vout.merged]
  /\ UNCHANGED <<env, text, detectors, calls, vin, shown>>

FilterOne ==
  /\ vkind = "validated"
  /\ vkind' = "filtered"
  /\ vout' = [vout EXCEPT !.filtered =
                apply_thresholds(vout.validated, detectors[1].made.config[1])]
  /\ UNCHANGED <<env, text, detectors, calls, vin, shown>>

NextSources == FuseOne \/ ValidateOne \/ FilterOne

SpecSources == InitSources /\ [][NextSources]_vars

----------------------------------------------------------------------------
(* api.py: the service with its detector made at startup, the requests POST /detect
   and POST /detect/batch and the metrics they update *)

MaxRequests == 2
MaxBatchTexts == 2
\* texts of requests: DetectRequest.text has min_length=1
ApiTexts == {"CPF: 111.111.111-11", "  (61) 99999-8888\r\n", "Maria  Silva"}
BatchTextLists == UNION {[1..n -> ApiTexts] : n \in 1..MaxBatchTexts}

\* DetectionResult.to_dict()
result_to_dict(result) ==
  [has_pii |-> result.has_pii,
   entities |-> [i \in 1..Len(result.entities) |-> to_dict(result.entities[i])],
   summary |-> result.summary, metadata |-> result.metadata]

\* PerformanceMetrics.__init__ and PerformanceMetrics.update(result)
NoMetrics == [total_texts |-> 0, total_entities |-> 0, total_time_ms |-> 0, by_type |-> <<>>]
metrics_update(metrics, result) ==
  [total_texts |-> metrics.total_texts + 1,
   total_entities |-> metrics.total_entities + Len(result.entities),
   total_time_ms |-> metrics.total_time_ms + result.metadata.processing_time_ms,
   by_type |-> TypesCounted(result.entities, 1, metrics.by_type)]
RECURSIVE MetricsLoop(_, _, _)
MetricsLoop(metrics, results, i) ==
  IF i > Len(results) THEN metrics
  ELSE MetricsLoop(metrics_update(metrics, results[i]), results, i + 1)

\* startup_event: detector = PIIGuardian(mode='balanced')
InitApi ==
  /\ env \in NerModels
  /\ text = ""
  /\ detectors = <<[mode |-> BALANCED, config_given |-> FALSE,
                    made |-> PIIGuardian_init(BALANCED, <<>>, env)]>>
  /\ calls = <<>>
  /\ vin = ""
  /\ vkind = ""
  /\ vout = NoMetrics
  /\ shown = <<>>

\* POST /detect: the detector of the service when the mode is its mode, else a
\* detector made for the request
detect_pii(t, mode, elapsed) ==
  /\ Len(calls) < MaxRequests
  /\ LET made == IF mode # detectors[1].made.config[1].mode
                 THEN PIIGuardian_init(mode, <<>>, env) ELSE detectors[1].made
         Answered(response) ==
           /\ calls' = Append(calls, [endpoint |-> "/detect", mode |-> mode, texts |-> <<t>>,
                                      response |-> response])
           /\ vout' = metrics_update(vout, response)
     IN Answered(result_to_dict(detect(normalize_text(t), made.config[1], made.bert_model,
                                       elapsed)))
  /\ UNCHANGED <<env, text, detectors, vin, vkind, shown>>

\* POST /detect/batch: every text goes to the detector of the service
detect_pii_batch(texts, mode, times) ==
  /\ Len(calls) < MaxRequests
  /\ LET made == detectors[1].made
         Answered(results) ==
           /\ calls' = Append(calls,
                 [endpoint |-> "/detect/batch", mode |-> mode, texts |-> texts,
                  response |-> [total_processed |-> Len(texts),
                                total_with_pii |->
                                  Cardinality({k \in 1..Len(results) : results[k].has_pii}),
                                results |-> results]])
           /\ vout' = MetricsLoop(vout, results, 1)
     IN Answered([k \in 1..Len(texts) |->
                    result_to_dict(detect(normalize_text(texts[k]), made.config[1],
                                          made.bert_model, times[k]))])
  /\ UNCHANGED <<env, text, detectors, vin, vkind, shown>>

NextApi ==
  \/ \E t \in ApiTexts, mode \in DetectionMode, elapsed \in Elapsed : detect_pii(t, mode, elapsed)
  \/ \E texts \in BatchTextLists, mode \in DetectionMode :
       \E times \in [1..Len(texts) -> Elapsed] : detect_pii_batch(texts, mode, times)

SpecApi == InitApi /\ [][NextApi]_vars

----------------------------------------------------------------------------
(* The validators on their own: one input, one call of one validator *)

\* the last two digits of an identifier, every pair of them
DigitPairs == {a \o b : a, b \in AsciiDigit}
\* first nine digits of a CPF: between them the first check digit takes every value
CPFBases ==
  {"00000000" \o d : d \in AsciiDigit} \cup {"000000013", "111111111", "529982247", "123456789"}
\* first twelve digits of a CNPJ, likewise
CNPJBases ==
  {"00000000000" \o d : d \in AsciiDigit} \cup {"000000000013", "112223330001", "111111111111"}
\* phones: an area code in the set or not, a fixed or a mobile number, with and
\* without the country code in front
PhoneInputs ==
  {ddi \o ddd \o number :
     ddi \in {"", "+55 ", "55"}, ddd \in {"11", "20", "55", "61"},
     number \in {"34567890", "934567890", "834567890", "99999999", "999999999", "91111111"}}
ValidatorInputs ==
  {b \o p : b \in CPFBases, p \in DigitPairs} \cup {b \o p : b \in CNPJBases, p \in DigitPairs}
  \cup PhoneInputs
  \cup {"", " ", "abc", "529.982.247-25", "111.111.111-11", "123.456.789-09", "529.982.247-2",
        "CPF 529.982.247-25 ", "11.222.333/0001-81", "11.111.111/1111-11", "11.222.333/0001-8",
        "1234567890", "123456789012", "(61) 99999-8888", "(61) 3456-7890", "(61) 3456-7",
        "99999-8888", "5511999998888", "551134567890", "55119999988", "(00) 3456-7890",
        "11 89999-8888", "(11) 1111-1111", "+55 (61) 99999-8888 ramal 2",
        "maria@exemplo.com", " A@B.COM ", "a@b", "a.b.com", "@", "a@b.xyz", "a@@b.com",
        "70000-000", "11111-111", "7000-000", "70.000-0000"}

InitValidators ==
  /\ env = NoModel
  /\ text = ""
  /\ detectors = <<>>
  /\ calls = <<>>
  /\ vin \in ValidatorInputs
  /\ vkind = ""
  /\ vout = NoResult
  /\ shown = <<>>

\* CPFValidator.validate(vin)
ValidateCPF ==
  /\ vkind = ""
  /\ vkind' = "CPF"
  /\ vout' = CPFValidator_validate(vin)
  /\ UNCHANGED <<env, text, detectors, calls, vin, shown>>

\* CNPJValidator.validate(vin)
ValidateCNPJ ==
  /\ vkind = ""
  /\ vkind' = "CNPJ"
  /\ vout' = CNPJValidator_validate(vin)
  /\ UNCHANGED <<env, text, detectors, calls, vin, shown>>

\* PhoneValidator.validate(vin)
ValidatePhone ==
  /\ vkind = ""
  /\ vkind' = "TELEFONE"
  /\ vout' = PhoneValidator_validate(vin)
  /\ UNCHANGED <<env, text, detectors, calls, vin, shown>>

\* EmailValidator.validate(vin)
ValidateEmail ==
  /\ vkind = ""
  /\ vkind' = "EMAIL"
  /\ vout' = EmailValidator_validate(vin)
  /\ UNCHANGED <<env, text, detectors, calls, vin, shown>>

\* CEPValidator.validate(vin)
ValidateCEP ==
  /\ vkind = ""
  /\ vkind' = "CEP"
  /\ vout' = CEPValidator_validate(vin)
  /\ UNCHANGED <<env, text, detectors, calls, vin, shown>>

NextValidators ==
  \/ ValidateCPF
  \/ ValidateCNPJ
  \/ ValidatePhone
  \/ ValidateEmail
  \/ ValidateCEP

SpecValidators == InitValidators /\ [][NextValidators]_vars

----------------------------------------------------------------------------
(* Properties of detect and of construction, over Spec *)

\* the entities a call returned
Returned(c) == calls[c].result.entities
\* [start, end) of a and of b intersect
Intersect(a, b) == a.start < b.end /\ b.start < a.end
\* every character of s is white space; the empty text among them
WhitespaceOnly(s) == \A i \in 1..Len(s) : SubSeq(s, i, i) \in Space
\* the entities of a sequence, as a set
EntitySet(entities) == {entities[i] : i \in 1..Len(entities)}
\* a call made with the preset of a mode
PresetCall(c, mode) == calls[c].config = get_config_for_mode(mode)

\* C1: in every result of detect, two entities of the same base type whose spans
\* intersect include one whose detection method is hybrid.
C1_NoSameTypeOverlap ==
  \A c \in 1..Len(calls) : \A i, j \in 1..Len(Returned(c)) :
    (/\ i < j
     /\ BaseType(Returned(c)[i].type) = BaseType(Returned(c)[j].type)
     /\ Intersect(Returned(c)[i], Returned(c)[j]))
    => "hybrid" \in {Returned(c)[i].detection_method, Returned(c)[j].detection_method}

\* C2: every entity detect returns has 0 <= start < end <= len(text) and a confidence
\* between 0 and 1.
C2_SpansAndConfidences ==
  \A c \in 1..Len(calls) : \A i \in 1..Len(Returned(c)) :
    /\ 0 <= Returned(c)[i].start
    /\ Returned(c)[i].start < Returned(c)[i].end
    /\ Returned(c)[i].end <= Len(calls[c].text)
    /\ 0 <= Returned(c)[i].confidence
    /\ Returned(c)[i].confidence <= 1000

C4_StrictAtLeastPrecise ==
  \A a, b \in 1..Len(calls) :
    (PresetCall(a, STRICT) /\ PresetCall(b, PRECISE) /\ calls[a].text = calls[b].text)
    => Len(Returned(a)) >= Len(Returned(b))
\* strict returned a checksum-invalid CPF that precise dropped
C4_Witness ==
  \E a, b \in 1..Len(calls) :
    /\ PresetCall(a, STRICT) /\ PresetCall(b, PRECISE)
    /\ calls[a].text = calls[b].text
    /\ Len(Returned(a)) > Len(Returned(b))
    /\ \E i \in 1..Len(Returned(a)) : /\ Returned(a)[i].validation_status = "invalid"
                                      /\ BaseType(Returned(a)[i].type) = "CPF"

\* the configs first and second are equal but for the thresholds, and no threshold of
\* second is below the one of first
ThresholdsRaised(first, second) ==
  /\ [first EXCEPT !.thresholds = <<>>] = [second EXCEPT !.thresholds = <<>>]
  /\ DOMAIN first.thresholds = DOMAIN second.thresholds
  /\ \A k \in DOMAIN first.thresholds : second.thresholds[k] >= first.thresholds[k]

\* C5: when two configs differ in their thresholds alone and every threshold of the
\* second is at least that of the first, the entities returned under the second on a
\* text are among those returned under the first.
C5_MonotonicThresholds ==
  \A a, b \in 1..Len(calls) :
    (calls[a].text = calls[b].text /\ ThresholdsRaised(calls[a].config, calls[b].config))
    => EntitySet(Returned(b)) \subseteq EntitySet(Returned(a))
\* thresholds really raised, and an entity lost to them while another stayed
C5_Witness ==
  \E a, b \in 1..Len(calls) :
    /\ calls[a].text = calls[b].text
    /\ calls[a].config # calls[b].config
    /\ ThresholdsRaised(calls[a].config, calls[b].config)
    /\ Returned(b) # <<>>
    /\ EntitySet(Returned(b)) # EntitySet(Returned(a))

\* C6: on an empty or whitespace-only text detect returns has_pii false, no entity
\* and total_entities 0, and no stage of the pipeline has run.
C6_BlankText ==
  \A c \in 1..Len(calls) :
    WhitespaceOnly(calls[c].text)
    => /\ ~calls[c].result.has_pii
       /\ Returned(c) = <<>>
       /\ calls[c].result.summary.total_entities = 0
       /\ calls[c].result.stages = <<>>
\* a call on a text of white space that is not empty
C6_Witness ==
  \E c \in 1..Len(calls) :
    /\ calls[c].text # ""
    /\ WhitespaceOnly(calls[c].text)
    /\ ~calls[c].result.has_pii
    /\ calls[c].result.stages = <<>>

\* C7: constructing a detector with a mode name that is not strict, balanced or
\* precise ends in an error; no detector comes of it.
C7_UnknownModeFails ==
  \A d \in 1..Len(detectors) :
    detectors[d].mode \notin DetectionMode => detectors[d].made.error # ""

\* a type without the suffix that marks a contextual detection
SuffixStripped(type) ==
  IF EndsWith(type, "_CONTEXTUAL") THEN SubSeq(type, 1, Len(type) - Len("_CONTEXTUAL"))
  ELSE type
\* the sum of the counts of a by_type
RECURSIVE SumOfCounts(_)
SumOfCounts(by_type) ==
  IF DOMAIN by_type = {} THEN 0
  ELSE LET t == CHOOSE x \in DOMAIN by_type : TRUE
       IN by_type[t] + SumOfCounts([x \in DOMAIN by_type \ {t} |-> by_type[x]])

\* C12: in every result has_pii says whether there are entities, total_entities is
\* their number, and by_type gives, for each type without its contextual suffix, the
\* number of entities of that type, so that its counts add up to total_entities.
C12_SummaryCounts ==
  \A c \in 1..Len(calls) :
    LET r == calls[c].result
        types == {SuffixStripped(r.entities[i].type) : i \in 1..Len(r.entities)}
    IN /\ r.has_pii <=> Len(r.entities) > 0
       /\ r.summary.total_entities = Len(r.entities)
       /\ DOMAIN r.summary.by_type = types
       /\ \A t \in types :
            r.summary.by_type[t]
              = Cardinality({i \in 1..Len(r.entities) : SuffixStripped(r.entities[i].type) = t})
       /\ SumOfCounts(r.summary.by_type) = r.summary.total_entities
\* a result where a contextual entity is counted with a plain one of its type
C12_Witness ==
  \E c \in 1..Len(calls) :
    \E i, j \in 1..Len(Returned(c)) :
      /\ Returned(c)[i].type # Returned(c)[j].type
      /\ SuffixStripped(Returned(c)[i].type) = SuffixStripped(Returned(c)[j].type)
      /\ calls[c].result.summary.by_type[SuffixStripped(Returned(c)[i].type)] >= 2
      /\ calls[c].result.has_pii

\* C13: the metadata of every result, the result for a blank text included, has the
\* processing time, the text length, the mode and the flag of the external model.
C13_MetadataFields ==
  \A c \in 1..Len(calls) :
    DOMAIN calls[c].result.metadata
      = {"processing_time_ms", "text_length", "mode", "bert_enabled"}

----------------------------------------------------------------------------
(* Properties of the stages of detect, over SpecStages *)

\* the entity a shares its value with b, or an offset of its span
SameValueOrOverlap(a, b) ==
  \/ a.value = b.value
  \/ \E o \in a.start..(a.end - 1) : b.start <= o /\ o < b.end

\* C22: the anti-false-negative pass runs only when the configuration enables the
\* contextual augmentation; it only appends, every entity of the merged list staying
\* where it was and as it was; and it appends an entity only when no entity before
\* it in the list has the same value or an overlapping span.
C22_AntiFnAppendsOnlyNew ==
  [][\A c \in 1..Len(calls) :
      (c <= Len(calls') /\ calls[c].pc = "anti_fn" /\ calls'[c].pc = "validation") =>
        LET before == calls[c].merged
            after == calls'[c].merged
        IN /\ ~detectors[calls[c].detector].made.config[1].use_contextual => after = before
           /\ Len(after) >= Len(before)
           /\ SubSeq(after, 1, Len(before)) = before
           /\ \A k \in (Len(before) + 1)..Len(after) :
                \A j \in 1..(k - 1) : ~SameValueOrOverlap(after[k], after[j])]_vars

\* the c-th call is past its validation stage (and the stage ran, when validating)
PastValidation(c) == calls[c].pc \in {"threshold", "result", "done"}
Validating(c) == PastValidation(c) /\ Self(c).config[1].validate_documents
\* the entity is of a checksum-backed kind and its validator returns invalid
ChecksumBacked(e) == BaseType(e.type) \in {"CPF", "CNPJ"}
Refused(e) == ChecksumBacked(e) /\ ~validate(BaseType(e.type), e.value).is_valid
SameSpot(a, b) ==
  a.type = b.type /\ a.value = b.value /\ a.start = b.start /\ a.end = b.end

\* C23: validation drops exactly the entities of base type CPF or CNPJ that their
\* validator refuses, and only outside strict mode; in strict mode such an entity is
\* kept with half its confidence and the validator's message appended as a warning.
\* So with validation on, nothing in a balanced or precise result is a CPF- or
\* CNPJ-based entity marked invalid, and no entity of another kind is dropped.
C23_ChecksumRefusal ==
  \A c \in 1..Len(calls) : Validating(c) =>
    LET before == calls[c].merged
        after == calls[c].validated
        mode == Self(c).config[1].mode
        survivors == SelectSeq(before, LAMBDA e : ~(Refused(e) /\ mode # STRICT))
        Marked(es) == \E k \in 1..Len(es) : ChecksumBacked(es[k]) /\ es[k].validation_status = "invalid"
    IN /\ Len(after) = Len(survivors)
       /\ \A k \in 1..Len(after) :
            /\ SameSpot(after[k], survivors[k])
            /\ Refused(survivors[k]) =>
                 /\ 2 * after[k].confidence = survivors[k].confidence
                 /\ after[k].validation_status = "invalid"
                 /\ after[k].explanation =
                      survivors[k].explanation \o " | AVISO: " \o
                      validate(BaseType(survivors[k].type), survivors[k].value).message
       /\ mode \in {BALANCED, PRECISE} =>
            /\ ~Marked(after)
            /\ ~Marked(calls[c].filtered)
            /\ calls[c].pc = "done" => ~Marked(calls[c].result.entities)
\* a balanced or precise call has dropped a refused CPF at validation, and kept the rest
C23_Witness ==
  \E c \in 1..Len(calls) :
    /\ Validating(c)
    /\ Self(c).config[1].mode \in {BALANCED, PRECISE}
    /\ \E k \in 1..Len(calls[c].merged) : Refused(calls[c].merged[k])
    /\ \E k \in 1..Len(calls[c].merged) : ~Refused(calls[c].merged[k])
    /\ Len(calls[c].validated) < Len(calls[c].merged)
    /\ calls[c].validated # <<>>
\* a strict call has kept a refused CPF with half its confidence
C23_StrictKept ==
  \E c \in 1..Len(calls) :
    /\ Validating(c)
    /\ Self(c).config[1].mode = STRICT
    /\ \E k \in 1..Len(calls[c].merged) :
         /\ Refused(calls[c].merged[k])
         /\ k <= Len(calls[c].validated)
         /\ 2 * calls[c].validated[k].confidence = calls[c].merged[k].confidence

\* the entities of the merged list that validation keeps, in their order
Survivors(c) ==
  SelectSeq(calls[c].merged, LAMBDA e : ~(Refused(e) /\ Self(c).config[1].mode # STRICT))
\* the entity has a validator and the validator accepts its value
Accepted(e) ==
  BaseType(e.type) \in ValidatorKinds /\ validate(BaseType(e.type), e.value).is_valid
Larger(a, b) == IF a > b THEN a ELSE b

\* C24: an entity that its validator accepts is kept by validation, marked valid, with
\* the larger of its previous confidence and the validator's confidence; validation
\* never lowers the confidence of an accepted entity.
C24_AcceptedRaised ==
  \A c \in 1..Len(calls) : Validating(c) =>
    /\ Len(calls[c].validated) = Len(Survivors(c))
    /\ \A k \in 1..Len(Survivors(c)) :
         LET before == Survivors(c)[k]
             after == calls[c].validated[k]
         IN Accepted(before) =>
              /\ SameSpot(after, before)
              /\ after.validation_status = "valid"
              /\ after.confidence =
                   Larger(before.confidence, validate(BaseType(before.type), before.value).confidence)
              /\ after.confidence >= before.confidence
\* validation has raised the confidence of an accepted entity
C24_Witness ==
  \E c \in 1..Len(calls) :
    /\ Validating(c)
    /\ \E k \in 1..Len(Survivors(c)) :
         /\ Accepted(Survivors(c)[k])
         /\ k <= Len(calls[c].validated)
         /\ calls[c].validated[k].confidence > Survivors(c)[k].confidence
\* validation has left an accepted entity above the validator's confidence
C24_AboveValidator ==
  \E c \in 1..Len(calls) :
    /\ Validating(c)
    /\ \E k \in 1..Len(Survivors(c)) :
         /\ Accepted(Survivors(c)[k])
         /\ Survivors(c)[k].confidence >
              validate(BaseType(Survivors(c)[k].type), Survivors(c)[k].value).confidence

\* the entity's base type has no validator
Unvalidated(e) == BaseType(e.type) \notin ValidatorKinds
\* the entity is of a kind without check digits and its validator returns invalid
Doubted(e) ==
  /\ BaseType(e.type) \in ValidatorKinds \ {"CPF", "CNPJ"}
  /\ ~validate(BaseType(e.type), e.value).is_valid
SameButStatus(a, b) ==
  /\ SameSpot(a, b)
  /\ a.confidence = b.confidence
  /\ a.detection_method = b.detection_method
  /\ a.explanation = b.explanation

\* C25: validation keeps an entity whose base type has no validator as it was, marked
\* not_applicable, and keeps an entity of a kind without check digits (phone, mobile,
\* e-mail, postal code) that its validator returns invalid with the confidence, value,
\* span, type, method and explanation it had.
C25_OthersKept ==
  \A c \in 1..Len(calls) : Validating(c) =>
    /\ Len(calls[c].validated) = Len(Survivors(c))
    /\ \A k \in 1..Len(Survivors(c)) :
         LET before == Survivors(c)[k]
             after == calls[c].validated[k]
         IN /\ Unvalidated(before) =>
                 /\ SameButStatus(after, before)
                 /\ after.validation_status = "not_applicable"
                 /\ after.validation_message = before.validation_message
            /\ Doubted(before) => SameButStatus(after, before)
    /\ \A i \in 1..Len(calls[c].merged) :
         (Unvalidated(calls[c].merged[i]) \/ Doubted(calls[c].merged[i])) =>
           \E k \in 1..Len(calls[c].validated) : SameSpot(calls[c].validated[k], calls[c].merged[i])
\* validation has kept a phone number that its validator returns invalid, and an entity
\* without a validator
C25_Witness ==
  \E c \in 1..Len(calls) :
    /\ Validating(c)
    /\ \E k \in 1..Len(calls[c].validated) :
         Doubted(calls[c].validated[k]) /\ calls[c].validated[k].validation_status = "invalid"
    /\ \E k \in 1..Len(calls[c].validated) :
         Unvalidated(calls[c].validated[k])
           /\ calls[c].validated[k].validation_status = "not_applicable"

\* the threshold of a type: that of the type less its suffix, else that of DEFAULT
Limit(config, type) ==
  IF SuffixStripped(type) \in DOMAIN config.thresholds
  THEN config.thresholds[SuffixStripped(type)]
  ELSE config.thresholds["DEFAULT"]
PastThreshold(c) == calls[c].pc \in {"result", "done"} /\ ~IsBlank(calls[c].text)

\* C26: the threshold stage keeps exactly the entities whose confidence after
\* validation is at least the threshold of their base type (the type less its
\* _CONTEXTUAL suffix, DEFAULT when the type has no entry), as they are and in their
\* order, whether validation ran or not, and these are the entities of the result.
C26_ThresholdStage ==
  \A c \in 1..Len(calls) : PastThreshold(c) =>
    /\ calls[c].filtered =
         SelectSeq(calls[c].validated,
                   LAMBDA e : e.confidence >= Limit(Self(c).config[1], e.type))
    /\ ~Self(c).config[1].validate_documents => calls[c].validated = calls[c].merged
    /\ calls[c].pc = "done" => calls[c].result.entities = calls[c].filtered
\* the threshold stage has dropped an entity and kept an entity with the suffix
C26_Witness ==
  \E c \in 1..Len(calls) :
    /\ PastThreshold(c)
    /\ Self(c).config[1].validate_documents
    /\ Len(calls[c].filtered) < Len(calls[c].validated)
    /\ \E k \in 1..Len(calls[c].filtered) :
         SuffixStripped(calls[c].filtered[k].type) # calls[c].filtered[k].type
\* the threshold stage has dropped an entity of a call that does not validate
C26_ValidationOff ==
  \E c \in 1..Len(calls) :
    /\ PastThreshold(c)
    /\ ~Self(c).config[1].validate_documents
    /\ Len(calls[c].filtered) < Len(calls[c].merged)
\* the threshold stage has judged an entity whose type has no entry by DEFAULT
C26_ByDefault ==
  \E c \in 1..Len(calls) :
    /\ PastThreshold(c)
    /\ \E k \in 1..Len(calls[c].validated) :
         SuffixStripped(calls[c].validated[k].type) \notin DOMAIN Self(c).config[1].thresholds

\* C29: every entity of the result of a detector made from a mode name has a
\* confidence of at least the min_confidence of that mode's preset, which is 0.3 in
\* strict, 0.5 in balanced and 0.7 in precise, though the threshold of CPF in strict
\* is 0.2: checked of one entity of every type and confidence the stages can make.
C29_MinConfidence ==
  /\ get_config_for_mode(STRICT).min_confidence = 300
  /\ get_config_for_mode(BALANCED).min_confidence = 500
  /\ get_config_for_mode(PRECISE).min_confidence = 700
  /\ get_config_for_mode(STRICT).thresholds["CPF"] = 200
  /\ vkind = "filtered" =>
       \A k \in 1..Len(vout.filtered) :
         vout.filtered[k].confidence >= detectors[1].made.config[1].min_confidence
\* the same of the results of detect over the texts, a stage at a time
C29_OverTexts ==
  \A c \in 1..Len(calls) :
    (calls[c].pc = "done" /\ ~detectors[calls[c].detector].config_given) =>
      \A k \in 1..Len(calls[c].result.entities) :
        calls[c].result.entities[k].confidence >= Self(c).config[1].min_confidence
\* strict has kept a CPF that its validator refuses, with half its confidence and
\* under the min_confidence of balanced
C29_Witness ==
  /\ vkind = "filtered"
  /\ detectors[1].made.config[1].mode = STRICT
  /\ vout.filtered # <<>>
  /\ Refused(vin[1])
  /\ 2 * vout.filtered[1].confidence = vin[1].confidence
  /\ vout.filtered[1].confidence < 500
\* the thresholds have dropped an entity that is under min_confidence
C29_DroppedUnder ==
  /\ vkind = "filtered"
  /\ vout.filtered = <<>>
  /\ vout.validated # <<>>
  /\ vout.validated[1].confidence < detectors[1].made.config[1].min_confidence

----------------------------------------------------------------------------
(* Properties of the batch processor, over SpecBatch *)

RECURSIVE SumSeq(_)
SumSeq(numbers) == IF numbers = <<>> THEN 0 ELSE Head(numbers) + SumSeq(Tail(numbers))
SumOver(results, Of(_)) == SumSeq([k \in 1..Len(results) |-> Of(results[k])])
EntityCount(result) == result.entity_count
OfType(t, result) ==
  Cardinality({j \in 1..Len(result.entities) : result.entities[j].type = t})
TypesOf(results) ==
  UNION {{results[k].entities[j].type : j \in 1..Len(results[k].entities)} : k \in 1..Len(results)}
CountOf(by_type, t) == IF t \in DOMAIN by_type THEN by_type[t] ELSE 0
\* the threads that have read the statistics and not yet written them
Updating == {StatsThread(i) : i \in {j \in 1..Len(calls) : calls[j].stats = "read"}}

\* C27: when process_batch has returned, whatever the number of workers and the order
\* in which they finished, total_processed has grown by the number of records,
\* errors + total_with_pii is at most total_processed, total_entities has grown by the
\* sum of the results' entity counts and by_type by the numbers of their entities of
\* each type; and at no time are two threads inside _update_stats.
C27_NoLostUpdate ==
  /\ Cardinality(Updating) <= 1
  /\ vkind = "returned" =>
       /\ Len(vout.results) = Len(vin)
       /\ vout.stats.total_processed = vout.before.total_processed + Len(vin)
       /\ vout.stats.errors + vout.stats.total_with_pii <= vout.stats.total_processed
       /\ vout.stats.errors = vout.before.errors
            + Cardinality({k \in 1..Len(vout.results) : vout.results[k].error # ""})
       /\ vout.stats.total_entities =
            vout.before.total_entities + SumOver(vout.results, EntityCount)
       /\ DOMAIN vout.stats.by_type = DOMAIN vout.before.by_type \cup TypesOf(vout.results)
       /\ \A t \in DOMAIN vout.stats.by_type :
            vout.stats.by_type[t] =
              CountOf(vout.before.by_type, t) + SumOver(vout.results, LAMBDA r : OfType(t, r))
\* a batch of two records on two workers has returned, the second record's result
\* first, one result an error and one with entities, on statistics that were not new
C27_Witness ==
  /\ vkind = "returned"
  /\ vout.workers = 2
  /\ Len(vout.results) = 2
  /\ vout.results[1].id = "1"
  /\ \E k \in 1..2 : vout.results[k].error # ""
  /\ \E k \in 1..2 : vout.results[k].entity_count > 0
  /\ vout.before.total_processed > 0

\* C28: process_batch returns the results in the order of the records, the i-th result
\* being that of the i-th record, whatever the number of workers.
C28_InputOrder ==
  vkind = "returned" =>
    /\ Len(vout.results) = Len(vin)
    /\ \A k \in 1..Len(vout.results) : vout.results[k].id = ToString(k - 1)
\* with one worker the results are in the order of the records
C28_OneWorker ==
  (vkind = "returned" /\ vout.workers = 1) =>
    /\ Len(vout.results) = Len(vin)
    /\ \A k \in 1..Len(vout.results) : vout.results[k].id = ToString(k - 1)

----------------------------------------------------------------------------
(* Properties of the service, over SpecApi *)

\* C30: the mode of a request chooses the preset for it, at /detect and at
\* /detect/batch: the response's metadata names the mode asked for, and a batch
\* request returns for each of its texts the entities that a /detect request of the
\* same mode returns for that text.
C30_RequestedMode ==
  \A a \in 1..Len(calls) :
    /\ calls[a].endpoint = "/detect" => calls[a].response.metadata.mode = calls[a].mode
    /\ calls[a].endpoint = "/detect/batch" =>
         \A k \in 1..Len(calls[a].texts) :
           /\ calls[a].response.results[k].metadata.mode = calls[a].mode
           /\ \A b \in 1..Len(calls) :
                (calls[b].endpoint = "/detect" /\ calls[b].mode = calls[a].mode
                   /\ calls[b].texts[1] = calls[a].texts[k]) =>
                  calls[a].response.results[k].entities = calls[b].response.entities
\* at /detect the mode asked for is the mode used
C30_SingleMode ==
  \A a \in 1..Len(calls) :
    calls[a].endpoint = "/detect" => calls[a].response.metadata.mode = calls[a].mode

----------------------------------------------------------------------------
(* Properties of the catalog's deduplication, over SpecCatalog *)

\* the ranges [start, end) of two matches share an offset
ShareOffset(a, b) ==
  \E o \in 0..(IF a.end > b.end THEN a.end ELSE b.end) :
    a.start <= o /\ o < a.end /\ b.start <= o /\ o < b.end
Deduplicated == vkind \in {"deduplicate_matches", "find_all"}
Dropped == {i \in 1..Len(vout.matches) : ~\E j \in 1..Len(vout.kept) : vout.kept[j] = vout.matches[i]}

\* C18: no two matches that the deduplication returns have intersecting ranges, of
\* whatever types, and every match it dropped intersects a match it kept.
C18_KeptAreDisjoint ==
  Deduplicated =>
    /\ \A i, j \in 1..Len(vout.kept) : i # j => ~ShareOffset(vout.kept[i], vout.kept[j])
    /\ \A i \in Dropped : \E j \in 1..Len(vout.kept) : ShareOffset(vout.matches[i], vout.kept[j])
\* find_all kept two matches of different types and dropped one that intersects both
C18_Witness ==
  /\ vkind = "find_all"
  /\ \E i, j \in 1..Len(vout.kept), d \in Dropped :
       /\ vout.kept[i].type # vout.kept[j].type
       /\ ~ShareOffset(vout.kept[i], vout.kept[j])
       /\ \E k \in 1..Len(vout.kept) : ShareOffset(vout.matches[d], vout.kept[k])

\* C19: of two intersecting matches the deduplication keeps the one with the higher
\* confidence, and with equal confidences the one that starts earlier: a match that
\* is dropped has a lower confidence than each kept match it intersects, or the same
\* confidence and no earlier a start.
C19_BestSurvives ==
  Deduplicated =>
    \A d \in Dropped, j \in 1..Len(vout.kept) :
      ShareOffset(vout.matches[d], vout.kept[j]) =>
        \/ vout.kept[j].confidence > vout.matches[d].confidence
        \/ /\ vout.kept[j].confidence = vout.matches[d].confidence
           /\ vout.kept[j].start <= vout.matches[d].start

----------------------------------------------------------------------------
(* Properties of the fusion, over SpecFusion *)

\* the same hit, whatever its confidence and method have become
SameHit(a, b) ==
  [a EXCEPT !.confidence = 0, !.detection_method = ""]
    = [b EXCEPT !.confidence = 0, !.detection_method = ""]
\* the external hits that share no offset with any pattern hit, in their order
RECURSIVE Independent(_, _)
Independent(external, pattern) ==
  IF external = <<>> THEN <<>>
  ELSE (IF \E j \in 1..Len(pattern) : ShareOffset(Head(external), pattern[j])
        THEN <<>> ELSE <<Head(external)>>)
       \o Independent(Tail(external), pattern)

\* C20: the fusion returns every pattern hit, in the order given and none dropped,
\* followed by exactly the external hits that overlap no pattern hit, so that an
\* external hit that overlaps a pattern hit is not in what it returns.
C20_FusionMembership ==
  vkind = "merge" =>
    /\ Len(vout.merged) >= Len(vout.regex_matches)
    /\ \A i \in 1..Len(vout.regex_matches) : SameHit(vout.merged[i], vout.regex_matches[i])
    /\ SubSeq(vout.merged, Len(vout.regex_matches) + 1, Len(vout.merged))
         = Independent(vout.bert_matches, vout.regex_matches)
\* the fusion was given an external hit that overlaps a pattern hit and one that
\* overlaps none: it returned the pattern hits and the second
C20_Witness ==
  /\ vkind = "merge"
  /\ Len(vout.regex_matches) > 0
  /\ Len(vout.merged) = Len(vout.regex_matches) + 1
  /\ \E i \in 1..Len(vout.bert_matches), j \in 1..Len(vout.regex_matches) :
       ShareOffset(vout.bert_matches[i], vout.regex_matches[j])
  /\ \E i \in 1..Len(vout.bert_matches) :
       vout.merged[Len(vout.merged)] = vout.bert_matches[i]

\* C21: after the fusion, every pattern hit that some external hit overlaps with a
\* strictly higher confidence has at least that confidence and the method hybrid; and
\* no pattern hit has a lower confidence than before, or another type, value, start or end.
C21_ConfidenceLift ==
  vkind = "merge" =>
    /\ Len(vout.merged) >= Len(vout.regex_matches)
    /\ \A j \in 1..Len(vout.regex_matches) :
         /\ vout.merged[j].confidence >= vout.regex_matches[j].confidence
         /\ vout.merged[j].type = vout.regex_matches[j].type
         /\ vout.merged[j].value = vout.regex_matches[j].value
         /\ vout.merged[j].start = vout.regex_matches[j].start
         /\ vout.merged[j].end = vout.regex_matches[j].end
         /\ \A i \in 1..Len(vout.bert_matches) :
              (/\ ShareOffset(vout.bert_matches[i], vout.regex_matches[j])
               /\ vout.bert_matches[i].confidence > vout.regex_matches[j].confidence)
              => /\ vout.merged[j].confidence >= vout.bert_matches[i].confidence
                 /\ vout.merged[j].detection_method = "hybrid"

----------------------------------------------------------------------------
(* Properties of mask_pii and anonymize_text, over SpecTransform *)

\* the entities whose span is substituted, and the offsets inside such a span
WithSpan(entities) ==
  {i \in 1..Len(entities) : entities[i].start >= 0 /\ entities[i].end > entities[i].start}
InSpan(entities, o) ==
  \E i \in WithSpan(entities) : entities[i].start <= o /\ o < entities[i].end
\* what an entity's span is to be replaced with
ReplacementsOf(t) ==
  {IF t.by = "mask_pii" THEN Masked(t.given[i].value, t.mask_char)
   ELSE Placeholder(t.given[i].type) : i \in WithSpan(t.given)}
\* s is made of whole replacements, one after the other
RECURSIVE MadeOf(_, _)
MadeOf(s, reps) ==
  \/ s = ""
  \/ \E r \in reps : r # "" /\ StartsWith(s, r) /\ MadeOf(From(s, Len(r)), reps)
\* out from offset o renders s from offset k: a character outside the spans appears as
\* it is, and a stretch of characters inside spans appears as replacements
RECURSIVE Renders(_, _, _, _, _, _)
Renders(out, o, s, k, entities, reps) ==
  IF k >= Len(s) THEN o = Len(out)
  ELSE IF ~InSpan(entities, k)
  THEN o < Len(out) /\ Ch(out, o) = Ch(s, k) /\ Renders(out, o + 1, s, k + 1, entities, reps)
  ELSE LET k2 == CHOOSE x \in (k + 1)..Len(s) :
                   /\ x = Len(s) \/ ~InSpan(entities, x)
                   /\ \A y \in k..(x - 1) : InSpan(entities, y)
       IN \E o2 \in o..Len(out) :
            /\ o2 > o \/ "" \in reps
            /\ MadeOf(Slice(out, o, o2), reps)
            /\ Renders(out, o2, s, k2, entities, reps)

\* C16: mask_pii and anonymize_text leave the entity records as they were given, and
\* the text they return is the text of the call with the characters outside the spans of
\* the entities unchanged and in order and with the spans replaced by the replacements
\* of the entities.
C16_SpansReplaced ==
  \A k \in 1..Len(shown) :
    /\ shown[k].entities = shown[k].given
    /\ Renders(shown[k].out, 0, calls[shown[k].call].text, 0, shown[k].given,
               ReplacementsOf(shown[k]))

\* C17: detect, called again by the same detector on the text that mask_pii or
\* anonymize_text made of a call's text and entities, returns no entity whose type
\* without the contextual suffix is the type of an entity that was transformed.
C17_NothingLeftToDetect ==
  \A k \in 1..Len(shown) :
    shown[k].again # <<>> =>
      \A i \in 1..Len(shown[k].again[1].entities), j \in 1..Len(shown[k].given) :
        SuffixStripped(shown[k].again[1].entities[i].type)
          # SuffixStripped(shown[k].given[j].type)

----------------------------------------------------------------------------
(* Properties of calls during which the external model may fail, over SpecFailure *)

\* what the pattern, contextual, validation and threshold stages give on their own
PatternsAlone(s, config) ==
  LET Found(found) ==
        LET regex == regex_detection_aggressive(s, found)
            contextual == IF config.use_contextual
                          THEN anti_false_negative_filter(regex, s, found) ELSE regex
            validated == IF config.validate_documents
                         THEN validate_consistency(contextual, config) ELSE contextual
        IN apply_thresholds(validated, config)
  IN IF IsBlank(s) THEN <<>> ELSE Found(Searches(s))

\* C15: a call on a detector without the external model, or during which the
\* invocation of the model raises, returns a result, whose entities are those of the
\* pattern, contextual, validation and threshold stages alone.
C15_DegradesGracefully ==
  \A c \in 1..Len(calls) :
    (calls[c].bert_model = NoModel \/ calls[c].invocation = "raises") =>
      /\ DOMAIN calls[c].result
           = {"has_pii", "entities", "summary", "metadata", "stages"}
      /\ calls[c].result.entities = PatternsAlone(calls[c].text, calls[c].config)
\* the invocation raised in a call on a text where the model, answering, adds a name:
\* the call returned the entities of the other stages
C15_Witness ==
  \E c \in 1..Len(calls) :
    /\ calls[c].bert_model = NerModel /\ calls[c].invocation = "raises"
    /\ calls[c].config.use_bert
    /\ calls[c].result.entities = PatternsAlone(calls[c].text, calls[c].config)
    /\ calls[c].result.entities # <<>>
    /\ detect(calls[c].text, calls[c].config, NerModel, 1).entities # calls[c].result.entities

----------------------------------------------------------------------------
(* Properties of concurrent calls, over SpecConcurrent *)

\* every call that has returned has the result of detect run alone on its text, with the
\* config and the model the detector was constructed with
ResultsAsAlone ==
  \A c \in 1..Len(calls) :
    calls[c].pc = "done" =>
      calls[c].result
        = detect(calls[c].text, get_config_for_mode(detectors[calls[c].detector].mode),
                 IF get_config_for_mode(detectors[calls[c].detector].mode).use_bert
                 THEN env ELSE NoModel,
                 calls[c].elapsed)

----------------------------------------------------------------------------
(* Properties of the validators, over SpecValidators *)

\* the digits of the input, one character each
InputDigits == SelectSeq(AsSeq([i \in 1..Len(vin) |-> SubSeq(vin, i, i)]),
                         LAMBDA c : c \in AsciiDigit)
\* all the digits of the input are the same digit
RepeatedDigits == \A i \in 1..Len(InputDigits) : InputDigits[i] = InputDigits[1]
\* the sum of the digits by the weights
RECURSIVE ReferenceSum(_, _)
ReferenceSum(digits, weights) ==
  IF weights = <<>> THEN 0
  ELSE DigitVal(Head(digits)) * Head(weights) + ReferenceSum(Tail(digits), Tail(weights))
\* the reference check digit: 0 when the remainder is below 2, else 11 less the remainder
ReferenceDigit(digits, weights) ==
  IF ReferenceSum(digits, weights) % 11 < 2 THEN 0
  ELSE 11 - (ReferenceSum(digits, weights) % 11)
\* both check digits of the input are the reference ones
CpfDigitsMatch ==
  /\ DigitVal(InputDigits[10]) = ReferenceDigit(InputDigits, <<10, 9, 8, 7, 6, 5, 4, 3, 2>>)
  /\ DigitVal(InputDigits[11]) = ReferenceDigit(InputDigits, <<11, 10, 9, 8, 7, 6, 5, 4, 3, 2>>)
CnpjDigitsMatch ==
  /\ DigitVal(InputDigits[13])
       = ReferenceDigit(InputDigits, <<5, 4, 3, 2, 9, 8, 7, 6, 5, 4, 3, 2>>)
  /\ DigitVal(InputDigits[14])
       = ReferenceDigit(InputDigits, <<6, 5, 4, 3, 2, 9, 8, 7, 6, 5, 4, 3, 2>>)

\* C8: the CPF validator answers valid, with confidence 0.98, exactly when the input
\* has 11 digits, not all the same, whose last two are the reference check digits;
\* digits that do not match give 0.3, a wrong count or repeated digits give 0.0.
C8_CpfExact ==
  vkind = "CPF" =>
    /\ vout.raised = ""
    /\ vout.is_valid <=> (Len(InputDigits) = 11 /\ ~RepeatedDigits /\ CpfDigitsMatch)
    /\ vout.confidence = IF Len(InputDigits) # 11 \/ RepeatedDigits THEN 0
                         ELSE IF CpfDigitsMatch THEN 980 ELSE 300
    /\ vin = "529.982.247-25" => vout.is_valid
    /\ vin = "111.111.111-11" => ~vout.is_valid
\* the valid example, validated
C8_Witness ==
  vkind = "CPF" /\ vin = "529.982.247-25" /\ vout.is_valid /\ vout.confidence = 980

\* C9: the CNPJ validator answers valid exactly when the input has 14 digits, not all
\* the same, whose 13th and 14th are the check digits of the weights 5,4,3,2,9,...,2
\* and 6,5,4,3,2,9,...,2.
C9_CnpjExact ==
  vkind = "CNPJ" =>
    /\ vout.raised = ""
    /\ vout.is_valid <=> (Len(InputDigits) = 14 /\ ~RepeatedDigits /\ CnpjDigitsMatch)
    /\ vin = "11.222.333/0001-81" => vout.is_valid
    /\ vin = "11.111.111/1111-11" => ~vout.is_valid
\* the valid example, validated
C9_Witness ==
  vkind = "CNPJ" /\ vin = "11.222.333/0001-81" /\ vout.is_valid

\* the digits of a phone after a leading 55 is taken off more than 11 of them
PhoneDigitCount ==
  IF Len(InputDigits) > 11 /\ InputDigits[1] = "5" /\ InputDigits[2] = "5"
  THEN Len(InputDigits) - 2 ELSE Len(InputDigits)
\* the input fails the validator called on its structure: a wrong count of digits, which
\* no digits at all and the empty string are cases of; for an email, nothing but white
\* space or no "@"
StructuralFailure ==
  CASE vkind = "CPF" -> Len(InputDigits) # 11
    [] vkind = "CNPJ" -> Len(InputDigits) # 14
    [] vkind = "CEP" -> Len(InputDigits) # 8
    [] vkind = "TELEFONE" -> PhoneDigitCount \notin {10, 11}
    [] vkind = "EMAIL" -> WhitespaceOnly(vin) \/ ~\E i \in 1..Len(vin) : SubSeq(vin, i, i) = "@"
    [] OTHER -> FALSE

\* C10: every validator returns a result and raises nothing, and on a structural
\* failure the result is invalid with confidence 0.0 and a message.
C10_ValidatorsNeverRaise ==
  vkind # "" =>
    /\ vout.raised = ""
    /\ StructuralFailure => (~vout.is_valid /\ vout.confidence = 0 /\ vout.message # "")
\* a phone of seven digits, turned down
C10_Witness ==
  /\ vkind = "TELEFONE" /\ vin = "(61) 3456-7"
  /\ StructuralFailure
  /\ ~vout.is_valid /\ vout.confidence = 0 /\ vout.message # "" /\ vout.raised = ""

\* the digits of the phone, a leading 55 taken off more than 11 of them
NationalDigits ==
  IF Len(InputDigits) > 11 /\ InputDigits[1] = "5" /\ InputDigits[2] = "5"
  THEN SubSeq(InputDigits, 3, Len(InputDigits)) ELSE InputDigits
\* what the phone validator is to accept
PhoneAcceptable ==
  /\ Len(NationalDigits) \in {10, 11}
  /\ DigitVal(NationalDigits[1]) * 10 + DigitVal(NationalDigits[2]) \in VALID_DDDS
  /\ Len(NationalDigits) = 11 => NationalDigits[3] = "9"
  /\ \E i \in 4..Len(NationalDigits) : NationalDigits[i] # NationalDigits[3]

\* C11: the phone validator answers valid, with confidence 0.90, exactly when the
\* digits of the input, a leading 55 taken off more than 11 of them, are 10 or 11, begin
\* with a valid area code, have 9 as the third of 11, and are not all the same after the
\* area code; a valid number of 10 or 11 digits gets the same result behind +55.
C11_PhoneExact ==
  vkind = "TELEFONE" =>
    /\ vout.raised = ""
    /\ vout.is_valid <=> PhoneAcceptable
    /\ vout.is_valid => vout.confidence = 900
    /\ (vout.is_valid /\ Len(InputDigits) \in {10, 11}) =>
         PhoneValidator_validate("+55" \o vin) = vout
\* a mobile number of 11 digits, valid, and valid behind +55 as well
C11_Witness ==
  /\ vkind = "TELEFONE" /\ vin = "61934567890"
  /\ vout.is_valid /\ vout.confidence = 900
  /\ PhoneValidator_validate("+55" \o vin) = vout

====
